---- MODULE Spec2Model ----
(***************************************************************************)
(* Model of the LLM-facing adapters of the music recommender:              *)
(*   recommender.get_holistic_llm_recommendations                          *)
(*   llm_enhancer.augment_song_details_with_llm                            *)
(*   lyrics_analyzer.get_lyrical_insights / get_rich_lyrical_insights      *)
(* and of the two places that report the holistic result to the user       *)
(* (main.run_recommender, app.get_recommendations).                        *)
(*                                                                         *)
(* Text is a sequence of lexemes: the Python string it stands for is the   *)
(* concatenation of the lexemes.  A JSON string literal such as "artist"   *)
(* (quotes included) is one lexeme.  Python and JSON values share one      *)
(* record shape, [t, s, keys, items]; Python None is the JSON null.        *)
(***************************************************************************)
EXTENDS Integers, Sequences, FiniteSets, TLC

\* ------------------------------------------------------------------ bounds
MaxRecs == 2      \* longest recommendation list an LLM reply carries
MaxLiked == 2     \* longest list of liked songs handed to the generator
MaxKeys == 2      \* most keys of a song record and of an augmentation reply
MaxLyricsLen == 2 \* most lexemes of a lyrics text
MaxSongs == 2     \* most liked songs one run of the enrichment loops is given
MaxTags == 2      \* longest genre list of a song record, longest list given to the Jaccard score
MaxTitleLen == 4  \* most lexemes of a free-form track title
MaxRawLen == 3    \* most lexemes of the free part of a raw lyrics text
MaxSimilar == 2   \* most similar tracks Last.fm answers with

\* ------------------------------------------------------------------ values
JNull == [t |-> "null", s |-> "", keys |-> <<>>, items |-> <<>>]
JStr(x) == [t |-> "str", s |-> x, keys |-> <<>>, items |-> <<>>]
JNum(x) == [t |-> "num", s |-> x, keys |-> <<>>, items |-> <<>>]
JList(xs) == [t |-> "list", s |-> "", keys |-> <<>>, items |-> xs]
JObj(ks, vs) == [t |-> "obj", s |-> "", keys |-> ks, items |-> vs]
PyNone == JNull
EmptyList == JList(<<>>)
EmptyDict == JObj(<<>>, <<>>)

\* position of key k in a dict's key sequence, 0 when absent
RECURSIVE KeyIndexFrom(_, _, _)
KeyIndexFrom(ks, k, i) ==
  IF i > Len(ks) THEN 0
  ELSE IF ks[i] = k THEN i
  ELSE KeyIndexFrom(ks, k, i + 1)

KeyIndex(d, k) == KeyIndexFrom(d.keys, k, 1)
HasKey(d, k) == KeyIndex(d, k) # 0
\* d[k] for a key that is present
DictGet(d, k) == d.items[KeyIndex(d, k)]

\* d[k] = v : a present key keeps its position, a new key goes last
DictSet(d, k, v) ==
  IF HasKey(d, k)
  THEN JObj(d.keys, [d.items EXCEPT ![KeyIndex(d, k)] = v])
  ELSE JObj(Append(d.keys, k), Append(d.items, v))

\* ------------------------------------------------------------------ lexemes
WS == {" ", "\n"}
\* three backticks; the lexeme is spelled FENCE because a TLA+ string cannot hold
\* a backtick
Fence == "FENCE"
JsonTag == "json"

\* the string literals of the alphabet and the Python string each denotes
Unquote ==
  ("\"artist\"" :> "artist") @@ ("\"title\"" :> "title") @@
  ("\"justification\"" :> "justification") @@
  ("\"recommendations\"" :> "recommendations") @@ ("\"other\"" :> "other") @@
  ("\"Song\"" :> "Song") @@ ("\"song\"" :> "song") @@
  ("\"Band\"" :> "Band") @@ ("\"band\"" :> "band") @@
  ("\"Tune\"" :> "Tune") @@ ("\"Duo\"" :> "Duo") @@
  ("\"Duo & Ann\"" :> "Duo & Ann") @@ ("\"R&B\"" :> "R&B") @@
  ("\"because\"" :> "because") @@
  ("\"genre\"" :> "genre") @@ ("\"rock\"" :> "rock") @@ ("\"metal\"" :> "metal") @@
  ("\"composers\"" :> "composers") @@ ("\"Ann\"" :> "Ann") @@
  ("\"lyrics\"" :> "lyrics") @@
  ("\"themes\"" :> "themes") @@ ("\"sentiments\"" :> "sentiments") @@
  ("\"keywords\"" :> "keywords") @@ ("\"overall_summary\"" :> "overall_summary") @@
  ("\"love\"" :> "love") @@ ("\"foo\"" :> "foo") @@
  ("\"song_title\"" :> "song_title") @@ ("\"artist_name\"" :> "artist_name") @@
  ("\"analysis_model\"" :> "analysis_model") @@
  ("\"overall_interpretation\"" :> "overall_interpretation") @@
  ("\"concise_summary\"" :> "concise_summary") @@
  ("\"detailed_breakdown\"" :> "detailed_breakdown") @@
  ("\"llm_confidence_notes\"" :> "llm_confidence_notes") @@
  ("\"gpt-4o\"" :> "gpt-4o") @@
  ("\"lyrical_insights\"" :> "lyrical_insights") @@
  ("\"spotify_info\"" :> "spotify_info") @@
  ("\"rich_lyrical_analysis\"" :> "rich_lyrical_analysis")

StrLits == DOMAIN Unquote
NumLits == {"5", "7"}

\* ------------------------------------------------------------------ json.loads
RECURSIVE SkipWS(_, _)
SkipWS(s, i) ==
  IF i <= Len(s) /\ s[i] \in WS THEN SkipWS(s, i + 1) ELSE i

ParseFail == [ok |-> FALSE, val |-> JNull, next |-> 0]
ParseOk(v, n) == [ok |-> TRUE, val |-> v, next |-> n]

RECURSIVE ParseValue(_, _)
RECURSIVE ParseElems(_, _, _)
RECURSIVE ParseMembers(_, _, _)

\* the elements of an array after "[" or ",": value, then "," or "]"
ParseElems(s, i, acc) ==
  LET r == ParseValue(s, i) IN
  IF ~r.ok THEN ParseFail
  ELSE LET k == SkipWS(s, r.next) IN
       IF k > Len(s) THEN ParseFail
       ELSE IF s[k] = "," THEN ParseElems(s, k + 1, Append(acc, r.val))
       ELSE IF s[k] = "]" THEN ParseOk(JList(Append(acc, r.val)), k + 1)
       ELSE ParseFail

\* the members of an object after "{" or ",": string ":" value, then "," or "}"
ParseMembers(s, i, acc) ==
  LET k == SkipWS(s, i) IN
  IF k > Len(s) \/ ~(s[k] \in StrLits) THEN ParseFail
  ELSE LET c == SkipWS(s, k + 1) IN
       IF c > Len(s) \/ s[c] # ":" THEN ParseFail
       ELSE LET r == ParseValue(s, c + 1) IN
            IF ~r.ok THEN ParseFail
            ELSE LET e == SkipWS(s, r.next)
                     d == DictSet(acc, Unquote[s[k]], r.val) IN
                 IF e > Len(s) THEN ParseFail
                 ELSE IF s[e] = "," THEN ParseMembers(s, e + 1, d)
                 ELSE IF s[e] = "}" THEN ParseOk(d, e + 1)
                 ELSE ParseFail

ParseValue(s, i0) ==
  LET i == SkipWS(s, i0) IN
  IF i > Len(s) THEN ParseFail
  ELSE IF s[i] = "[" THEN
         LET j == SkipWS(s, i + 1) IN
         IF j <= Len(s) /\ s[j] = "]" THEN ParseOk(EmptyList, j + 1)
         ELSE ParseElems(s, i + 1, <<>>)
  ELSE IF s[i] = "{" THEN
         LET j == SkipWS(s, i + 1) IN
         IF j <= Len(s) /\ s[j] = "}" THEN ParseOk(EmptyDict, j + 1)
         ELSE ParseMembers(s, i + 1, EmptyDict)
  ELSE IF s[i] \in StrLits THEN ParseOk(JStr(Unquote[s[i]]), i + 1)
  ELSE IF s[i] \in NumLits THEN ParseOk(JNum(s[i]), i + 1)
  ELSE IF s[i] = "null" THEN ParseOk(JNull, i + 1)
  ELSE ParseFail

\* json.loads(text): ok = FALSE stands for json.JSONDecodeError
JsonLoads(s) ==
  LET r == ParseValue(s, 1) IN
  IF r.ok /\ SkipWS(s, r.next) > Len(s)
  THEN [ok |-> TRUE, val |-> r.val]
  ELSE [ok |-> FALSE, val |-> JNull]

\* ------------------------------------------------------------------ str methods
RECURSIVE LStrip(_)
LStrip(s) == IF s # <<>> /\ Head(s) \in WS THEN LStrip(Tail(s)) ELSE s

RECURSIVE RStrip(_)
RStrip(s) ==
  IF s # <<>> /\ s[Len(s)] \in WS THEN RStrip(SubSeq(s, 1, Len(s) - 1)) ELSE s

Strip(s) == RStrip(LStrip(s))

StartsWith(s, p) == Len(s) >= Len(p) /\ SubSeq(s, 1, Len(p)) = p
EndsWith(s, p) == Len(s) >= Len(p) /\ SubSeq(s, Len(s) - Len(p) + 1, Len(s)) = p

\* ------------------------------------------------------------------ the LLM
\* One chat.completions.create call: it raises (json.JSONDecodeError is the one
\* exception class the callers name), or answers content None, or answers text.
LlmRaise == [kind |-> "raise", toks |-> <<>>]
LlmRaiseJson == [kind |-> "raise_json", toks |-> <<>>]
LlmNone == [kind |-> "none", toks |-> <<>>]
LlmText(t) == [kind |-> "text", toks |-> t]

\* what a function hands back: the value returned, or the exception that escapes
\* (exc # ""), the chat-completion calls it made, and the message it printed
Returned(v, n, l) == [val |-> v, exc |-> "", calls |-> n, log |-> l]
Escaped(e, n) == [val |-> PyNone, exc |-> e, calls |-> n, log |-> "traceback"]

\* ------------------------------------------------------------------ recommender.py
\* lines 295-299: the markdown fence is stripped only when the stripped reply
\* starts with the fence followed by the json tag
StripFences(content) ==
  IF StartsWith(Strip(content), <<Fence, JsonTag>>)
  THEN LET a == Strip(content)
           b == Strip(SubSeq(a, 3, Len(a)))
       IN IF EndsWith(b, <<Fence>>) THEN Strip(SubSeq(b, 1, Len(b) - 1)) ELSE b
  ELSE content

IsList(v) == v.t = "list"
IsDict(v) == v.t = "obj"
ListFields(d) == {i \in 1..Len(d.items) : IsList(d.items[i])}
Min(S) == CHOOSE x \in S : \A y \in S : x <= y
Max(S) == CHOOSE x \in S : \A y \in S : x >= y

\* (mutation of FirstListValue: the loop keeps going and the last list wins)
LastListValue(d) == d.items[Max(ListFields(d))]

\* lines 311-314: the loop over recommendations.items() returns the first list
FirstListValue(d) == d.items[Min(ListFields(d))]

\* lines 306-320: what is returned for a reply that parsed as JSON
ShapeRecover(v) ==
  IF IsList(v) THEN Returned(v, 1, "received_list")
  ELSE IF IsDict(v) /\ ListFields(v) # {}
       THEN Returned(FirstListValue(v), 1, "received_from_dict_key")
  ELSE Returned(EmptyList, 1, "not_expected_format")

\* lines 304-325
ParseRecommendations(content) ==
  LET r == JsonLoads(content) IN
  IF r.ok THEN ShapeRecover(r.val)
  ELSE Returned(PyNone, 1, "decode_error")

get_holistic_llm_recommendations(liked, client, llm) ==
  IF ~client THEN Returned(PyNone, 0, "client_not_available")
  ELSE IF liked = <<>> THEN Returned(EmptyList, 0, "no_liked_songs")
  ELSE IF llm.kind \in {"raise", "raise_json"} THEN Returned(PyNone, 1, "error_occurred")
  ELSE IF llm.kind = "none" \/ llm.toks = <<>> THEN Returned(EmptyList, 1, "no_content")
  ELSE ParseRecommendations(StripFences(llm.toks))

\* ------------------------------------------------------------------ main.py 283-305
AllDicts(l) == \A i \in 1..Len(l.items) : IsDict(l.items[i])
Truthy(v) ==
  CASE v.t = "null" -> FALSE
    [] v.t = "list" -> v.items # <<>>
    [] v.t = "obj" -> v.keys # <<>>
    [] v.t = "str" -> v.s # ""
    [] OTHER -> TRUE

\* valid: valid_liked_songs, not empty here (line 188 returns otherwise).
\* Lines 219-280 fill fully_enriched_liked_songs_for_llm with one record per valid
\* song when the client is there, and leave it empty when it is not.
RunRecommenderReport(valid, client, llm) ==
  LET enriched == IF client THEN valid ELSE <<>> IN
  IF client /\ enriched # <<>>
  THEN LET r == get_holistic_llm_recommendations(enriched, client, llm) IN
       [res |-> r,
        outcome |->
          IF Truthy(r.val)
          THEN IF AllDicts(r.val) THEN "top_recommendations_printed"
               ELSE "unexpected_error"                \* rec.get on a non-dict
          ELSE IF r.val = EmptyList THEN "llm_did_not_generate_any"
          ELSE "could_not_generate_internal_error"]
  ELSE [res |-> Returned(PyNone, 0, "not_called"),
        outcome |-> IF ~client THEN "skipped_no_client" ELSE "skipped_no_songs"]

\* ------------------------------------------------------------------ app.py 82-114
\* character i of a string, and the string from character i on
CharAt(s, i) == SubSeq(s, i, i)
From(s, i) == SubSeq(s, i, Len(s))
Position(c, table) == CHOOSE i \in 1..Len(table) : CharAt(table, i) = c
Occurs(c, table) == \E i \in 1..Len(table) : CharAt(table, i) = c

\* the printable ASCII characters in code order: from the space (code 32) to
\* the underscore, and from a (code 97) to the tilde; the strings of the model
\* are made of these
UpperRange == " !\"#$%&'()*+,-./0123456789:;<=>?@ABCDEFGHIJKLMNOPQRSTUVWXYZ[\\]^_"
LowerRange == "abcdefghijklmnopqrstuvwxyz{|}~"

\* ord(c): the first character of UpperRange has code 32, of LowerRange 97
Ord(c) ==
  IF Occurs(c, UpperRange) THEN 31 + Position(c, UpperRange)
  ELSE 96 + Position(c, LowerRange)

\* sub in s, for strings
HasSubstring(s, sub) ==
  \E i \in 1..(Len(s) - Len(sub) + 1) : SubSeq(s, i, i + Len(sub) - 1) = sub

\* s.replace(old, new) for a non-empty old: the occurrences of old from left
\* to right
RECURSIVE Replace(_, _, _)
Replace(s, old, new) ==
  IF Len(s) < Len(old) THEN s
  ELSE IF SubSeq(s, 1, Len(old)) = old
       THEN new \o Replace(From(s, Len(old) + 1), old, new)
  ELSE CharAt(s, 1) \o Replace(From(s, 2), old, new)

\* urllib.parse: the characters quote never escapes
Unreserved == "ABCDEFGHIJKLMNOPQRSTUVWXYZabcdefghijklmnopqrstuvwxyz0123456789_.-~"
HexDigit(n) == CharAt("0123456789ABCDEF", n + 1)
CharsOf(table) == {CharAt(table, i) : i \in 1..Len(table)}

\* what urllib.parse.quote_plus with safe='' makes of one character: a space
\* becomes +, an unreserved character stays, any other becomes % and its code
\* in two hex digits
QuotedChar ==
  [c \in CharsOf(UpperRange) \cup CharsOf(LowerRange) |->
     IF c = " " THEN "+"
     ELSE IF c \in CharsOf(Unreserved) THEN c
     ELSE "%" \o HexDigit(Ord(c) \div 16) \o HexDigit(Ord(c) % 16)]

\* urllib.parse.quote_plus(s)
RECURSIVE quote_plus(_)
quote_plus(s) ==
  IF Len(s) = 0 THEN "" ELSE QuotedChar[CharAt(s, 1)] \o quote_plus(From(s, 2))

\* what sp_client.search of lines 104-110 finds: it raises, no item, an item
\* whose external_urls has no spotify entry, or an item with its URL
LinkAnswers == {"raise", "no_items", "no_url", "url"}

\* line 87
CleanArtist(artist) == Replace(Replace(artist, " & ", " "), "&", "and")

\* lines 82-114; spotify: sp_client is there; found: what its search finds
\* (no search is made without sp_client)
generate_streaming_links(artist, title, spotify, found) ==
  LET encoded_query == quote_plus(CleanArtist(artist) \o " " \o title)
  IN JObj(<<"spotify", "apple_music", "youtube">>,
          <<JStr(IF spotify /\ found = "url"
                 THEN "https://open.spotify.com/track/id"
                 ELSE "https://open.spotify.com/search/" \o encoded_query),
            JStr("https://music.apple.com/search?term=" \o encoded_query),
            JStr("https://www.youtube.com/results?search_query=" \o encoded_query)>>)

\* the sp_client.search call of line 105 and its query
LinkSearch(artist, title, found) ==
  [song |-> 0, kind |-> "link_search", matched |-> FALSE, answer |-> found,
   arg |-> <<"artist:" \o CleanArtist(artist) \o " track:" \o title>>]

\* ------------------------------------------------------------------ app.py 184-271
\* lines 261-263 on one element of the list: does it raise?
RecRaises(rec) ==
  CASE rec.t \in {"num", "null"} -> TRUE                 \* 'artist' in rec
    [] rec.t = "str" ->                                  \* substring tests, rec['artist']
         HasSubstring(rec.s, "artist") /\ HasSubstring(rec.s, "title")
    [] rec.t = "list" ->
         /\ \E i \in 1..Len(rec.items) : rec.items[i] = JStr("artist")
         /\ \E i \in 1..Len(rec.items) : rec.items[i] = JStr("title")
    [] OTHER ->
         /\ HasKey(rec, "artist") /\ HasKey(rec, "title")
         /\ \/ DictGet(rec, "artist").t # "str"          \* artist.replace
            \/ DictGet(rec, "title").t # "str"           \* quote_plus(title)

\* line 262 on an element that does not raise
WantsLinks(rec) == rec.t = "obj" /\ HasKey(rec, "artist") /\ HasKey(rec, "title")

\* lines 261-263 from element i on; k: the catalog searches made before it;
\* found[j]: what search j finds.  The loop stops at the element that raises;
\* the elements before it have their links by then.
RECURSIVE AddStreamingLinks(_, _, _, _, _)
AddStreamingLinks(recs, i, spotify, found, k) ==
  IF i > Len(recs) THEN [items |-> recs, raised |-> FALSE, calls |-> <<>>]
  ELSE IF RecRaises(recs[i]) THEN [items |-> recs, raised |-> TRUE, calls |-> <<>>]
  ELSE IF ~WantsLinks(recs[i]) THEN AddStreamingLinks(recs, i + 1, spotify, found, k)
  ELSE LET artist == DictGet(recs[i], "artist").s
           title == DictGet(recs[i], "title").s
           links == generate_streaming_links(artist, title, spotify,
                                             IF spotify THEN found[k + 1] ELSE "")
           rest == AddStreamingLinks(
                     [recs EXCEPT ![i] = DictSet(recs[i], "streaming_links", links)],
                     i + 1, spotify, found, IF spotify THEN k + 1 ELSE k)
       IN [rest EXCEPT !.calls =
             (IF spotify THEN <<LinkSearch(artist, title, found[k + 1])>> ELSE <<>>) \o @]

\* the catalog searches lines 261-263 make from element i on: one for every
\* element with an artist and a title before the element that raises
RECURSIVE LinkSearches(_, _, _)
LinkSearches(recs, i, spotify) ==
  IF i > Len(recs) \/ ~spotify THEN 0
  ELSE IF RecRaises(recs[i]) THEN 0
  ELSE (IF WantsLinks(recs[i]) THEN 1 ELSE 0) + LinkSearches(recs, i + 1, spotify)

\* lines 265 and 269-271; r: what get_holistic_llm_recommendations did.  res.val
\* is the list the handler holds at its end, searches the catalog searches of
\* the links
AppLinked(r, linked) ==
  [res |-> [r EXCEPT !.val = JList(linked.items)],
   outcome |-> IF linked.raised THEN "error_an_error_occurred" ELSE "recommendations",
   searches |-> linked.calls]

\* lines 259-267
AppAfterHolistic(r, spotify, found) ==
  IF Truthy(r.val)
  THEN AppLinked(r, AddStreamingLinks(r.val.items, 1, spotify, found, 0))
  ELSE [res |-> r, outcome |-> "error_could_not_generate", searches |-> <<>>]

\* lines 189-190 and 254-271; songs: enriched_songs
AppRecommendReport(songs, client, llm, spotify, found) ==
  IF songs = <<>> \/ ~client
  THEN [res |-> Returned(PyNone, 0, "not_called"),
        outcome |-> "error_no_songs_or_client", searches |-> <<>>]
  ELSE AppAfterHolistic(get_holistic_llm_recommendations(songs, client, llm),
                        spotify, found)

\* ------------------------------------------------------------------ dict.update
\* the key and value one element of an iterable argument contributes, or the
\* TypeError / ValueError it raises (ok = FALSE).  No string of the alphabet is
\* two characters long, so a string element always raises.
UpdatePair(item) ==
  IF item.t = "list" /\ Len(item.items) = 2 /\ item.items[1].t \in {"str", "num", "null"}
  THEN [ok |-> TRUE,
        key |-> IF item.items[1].t = "null" THEN "None" ELSE item.items[1].s,
        val |-> item.items[2]]
  ELSE IF item.t = "obj" /\ Len(item.keys) = 2
  THEN [ok |-> TRUE, key |-> item.keys[1], val |-> JStr(item.keys[2])]
  ELSE [ok |-> FALSE, key |-> "", val |-> JNull]

RECURSIVE UpdateFromDict(_, _, _)
UpdateFromDict(d, other, i) ==
  IF i > Len(other.keys) THEN d
  ELSE UpdateFromDict(DictSet(d, other.keys[i], other.items[i]), other, i + 1)

RECURSIVE UpdateFromPairs(_, _, _)
UpdateFromPairs(d, xs, i) ==
  IF i > Len(xs) THEN [ok |-> TRUE, val |-> d]
  ELSE LET p == UpdatePair(xs[i]) IN
       IF p.ok THEN UpdateFromPairs(DictSet(d, p.key, p.val), xs, i + 1)
       ELSE [ok |-> FALSE, val |-> d]

\* (mutation of DictUpdate: keys already present keep their old value)
RECURSIVE FillMissingFromDict(_, _, _)
FillMissingFromDict(d, other, i) ==
  IF i > Len(other.keys) THEN d
  ELSE FillMissingFromDict(
         IF HasKey(d, other.keys[i]) THEN d ELSE DictSet(d, other.keys[i], other.items[i]),
         other, i + 1)

DictUpdateKeepOld(d, other) ==
  IF other.t = "obj" THEN [ok |-> TRUE, val |-> FillMissingFromDict(d, other, 1)]
  ELSE IF other.t = "list" THEN UpdateFromPairs(d, other.items, 1)
  ELSE [ok |-> FALSE, val |-> d]

\* d.copy().update(other): the updated copy, or ok = FALSE when update raises
DictUpdate(d, other) ==
  IF other.t = "obj" THEN [ok |-> TRUE, val |-> UpdateFromDict(d, other, 1)]
  ELSE IF other.t = "list" THEN UpdateFromPairs(d, other.items, 1)
  ELSE [ok |-> FALSE, val |-> d]          \* a number, None, a non-empty string

\* ------------------------------------------------------------------ llm_enhancer.py
\* lines 61-71
MergeAugmentation(existing, content) ==
  LET r == JsonLoads(content) IN
  IF ~r.ok THEN Returned(existing, 1, "decode_error")
  ELSE LET u == DictUpdate(existing, r.val) IN
       IF u.ok THEN Returned(u.val, 1, "augmented")
       ELSE Returned(existing, 1, "error_occurred")

\* (mutation of updated_details: update() is applied to existing_details itself)
updated_details_in_place(existing) == [of |-> "existing_details", val |-> existing]

\* line 69: the mapping update() is applied to, a copy of existing_details
updated_details(existing) == [of |-> "copy", val |-> existing]

\* lines 64-71: existing_details once the reply was merged; an update that
\* raises leaves the pairs it had already stored
ExistingAfterMerge(existing, content) ==
  LET r == JsonLoads(content) IN
  IF ~r.ok \/ updated_details(existing).of = "copy" THEN existing
  ELSE DictUpdate(updated_details(existing).val, r.val).val

\* lines 47-82: the mapping given as existing_details when the call is over
existing_details_after(existing, client, llm) ==
  IF client /\ llm.kind = "text" /\ llm.toks # <<>>
  THEN ExistingAfterMerge(existing, llm.toks)
  ELSE existing

\* lines 47-82.  The handler of json.JSONDecodeError prints llm_response_content:
\* when the create call itself raised that class the name is unbound and
\* UnboundLocalError leaves the function.
augment_song_details_with_llm(existing, client, llm) ==
  IF ~client THEN Returned(existing, 0, "error_occurred")     \* None.chat
  ELSE IF llm.kind = "raise" THEN Returned(existing, 1, "error_occurred")
  ELSE IF llm.kind = "raise_json" THEN Escaped("UnboundLocalError", 1)
  ELSE IF llm.kind = "none" \/ llm.toks = <<>> THEN Returned(existing, 1, "no_content")
  ELSE MergeAugmentation(existing, llm.toks)

\* ------------------------------------------------------------------ lyrics_analyzer.py
LyricsNone == [kind |-> "none", toks |-> <<>>]
LyricsText(t) == [kind |-> "text", toks |-> t]

\* (mutation of EmptyLyrics: the strip() test is forgotten)
EmptyLyricsNoStrip(lyrics) == lyrics.kind = "none" \/ lyrics.toks = <<>>

\* lines 21 and 97: not lyrics_text or not lyrics_text.strip()
EmptyLyrics(lyrics) ==
  lyrics.kind = "none" \/ lyrics.toks = <<>> \/ Strip(lyrics.toks) = <<>>

\* line 23
BasicSentinel ==
  JObj(<<"themes", "sentiments", "keywords", "summary">>,
       <<EmptyList, EmptyList, EmptyList, JStr("Lyrics were empty.")>>)

\* lines 99-107
RichSentinel(song_title, artist_name) ==
  JObj(<<"song_title", "artist_name", "analysis_model", "overall_interpretation",
         "concise_summary", "detailed_breakdown", "llm_confidence_notes">>,
       <<song_title, artist_name, JStr("gpt-4o"), JStr("Lyrics were empty."),
         JStr("Lyrics were empty."), EmptyDict,
         JStr("Analysis skipped due to empty lyrics.")>>)

\* lines 45-74 and 185-209: json.loads of the reply is returned as it is;
\* json.loads(None) raises TypeError, caught by except Exception
AnalyzeReply(llm) ==
  IF llm.kind = "raise" THEN Returned(PyNone, 1, "error_occurred")
  ELSE IF llm.kind = "raise_json" THEN Escaped("UnboundLocalError", 1)
  ELSE IF llm.kind = "none" THEN Returned(PyNone, 1, "error_occurred")
  ELSE LET r == JsonLoads(llm.toks) IN
       IF r.ok THEN Returned(r.val, 1, "analysis_returned")
       ELSE Returned(PyNone, 1, "decode_error")

\* client: what get_openai_client() returned (line 16)
get_lyrical_insights(lyrics, client, llm) ==
  IF ~client THEN Returned(PyNone, 0, "client_not_available")
  ELSE IF EmptyLyrics(lyrics) THEN Returned(BasicSentinel, 0, "lyrics_empty")
  ELSE AnalyzeReply(llm)

get_rich_lyrical_insights(lyrics, song_title, artist_name, client, llm) ==
  IF ~client THEN Returned(PyNone, 0, "client_not_available")
  ELSE IF EmptyLyrics(lyrics)
       THEN Returned(RichSentinel(song_title, artist_name), 0, "lyrics_empty")
  ELSE AnalyzeReply(llm)

\* ------------------------------------------------------------------ recommender.py 41-105
\* a Python set; a list is JList
PySet(S) == [t |-> "set", elems |-> S]
IsSet(c) == c.t = "set"
\* set(x) of a list or a set
SetOf(c) == IF IsSet(c) THEN c.elems ELSE {c.items[i] : i \in 1..Len(c.items)}

\* ---- Python floats (IEEE 754 binary64), as the interpreter computes them
\* A natural number of any size is the sequence of its digits in base 2^15, the
\* least significant first, with no leading zero digit (0 is <<>>); the products
\* of two digits stay below 2^31.
Pow2(k) == 2 ^ k

RECURSIVE BigTrim(_)
BigTrim(a) ==
  IF a # <<>> /\ a[Len(a)] = 0 THEN BigTrim(SubSeq(a, 1, Len(a) - 1)) ELSE a

RECURSIVE BigAddFrom(_, _, _, _)
BigAddFrom(a, b, i, carry) ==
  IF i > Len(a) /\ i > Len(b) THEN (IF carry = 0 THEN <<>> ELSE <<carry>>)
  ELSE LET t == (IF i <= Len(a) THEN a[i] ELSE 0)
                + (IF i <= Len(b) THEN b[i] ELSE 0) + carry
       IN <<t % 32768>> \o BigAddFrom(a, b, i + 1, t \div 32768)
BigAdd(a, b) == BigAddFrom(a, b, 1, 0)

\* a times the digit d
RECURSIVE BigTimesDigit(_, _, _, _)
BigTimesDigit(a, d, i, carry) ==
  IF i > Len(a) THEN (IF carry = 0 THEN <<>> ELSE <<carry>>)
  ELSE LET t == a[i] * d + carry
       IN <<t % 32768>> \o BigTimesDigit(a, d, i + 1, t \div 32768)

RECURSIVE BigMulFrom(_, _, _)
BigMulFrom(a, b, j) ==
  IF j > Len(b) THEN <<>>
  ELSE BigAdd(BigTimesDigit(a, b[j], 1, 0), <<0>> \o BigMulFrom(a, b, j + 1))
BigMul(a, b) == BigTrim(BigMulFrom(a, b, 1))

\* the quotient of a by the digit d, digits i..1
RECURSIVE BigDivDigit(_, _, _, _)
BigDivDigit(a, d, i, rem) ==
  IF i = 0 THEN <<>>
  ELSE LET t == rem * 32768 + a[i]
       IN BigDivDigit(a, d, i - 1, t % d) \o <<t \div d>>

\* a * 2^k and a \div 2^k
BigShl(a, k) ==
  BigTrim([i \in 1..(k \div 15) |-> 0] \o BigTimesDigit(a, Pow2(k % 15), 1, 0))
BigShr(a, k) ==
  BigTrim(BigDivDigit(SubSeq(a, (k \div 15) + 1, Len(a)), Pow2(k % 15),
                      Len(a) - (k \div 15), 0))

BigLeq(a, b) ==
  IF Len(a) # Len(b) THEN Len(a) < Len(b)
  ELSE \A i \in 1..Len(a) : a[i] > b[i] => \E j \in (i + 1)..Len(a) : a[j] < b[j]

\* the number of binary digits of a
BitLen(a) ==
  IF a = <<>> THEN 0
  ELSE 15 * (Len(a) - 1)
       + (CHOOSE n \in 1..15 : Pow2(n - 1) <= a[Len(a)] /\ a[Len(a)] < Pow2(n))

\* A float that is not negative is m * 2^e, kept with m odd (0.0 with e = 0), so
\* that equal floats are equal records.  The exponents of the scores stay far
\* from the ends of the binary64 range.
RECURSIVE Float(_, _)
Float(m, e) ==
  IF m = <<>> THEN [m |-> <<>>, e |-> 0]
  ELSE IF m[1] = 0 THEN Float(Tail(m), e + 15)
  ELSE LET k == CHOOSE k \in 0..14 : m[1] % Pow2(k) = 0 /\ m[1] % Pow2(k + 1) # 0
       IN [m |-> BigShr(m, k), e |-> e + k]

\* m * 2^e rounded to the 53 binary digits of a float, the nearest one and of
\* two equally near the even one
RoundToFloat(m, e) ==
  IF BitLen(m) <= 53 THEN Float(m, e)
  ELSE LET drop == BitLen(m) - 53
           q == BigShr(m, drop)
           half == BigShr(m, drop - 1)[1] % 2 = 1
           below == BigShl(BigShr(m, drop - 1), drop - 1) # m
       IN Float(IF half /\ (below \/ q[1] % 2 = 1) THEN BigAdd(q, <<1>>) ELSE q,
                e + drop)

FloatAdd(x, y) ==
  LET e == IF x.e < y.e THEN x.e ELSE y.e
  IN RoundToFloat(BigAdd(BigShl(x.m, x.e - e), BigShl(y.m, y.e - e)), e)
FloatMul(x, y) == RoundToFloat(BigMul(x.m, y.m), x.e + y.e)
FloatLeq(x, y) ==
  LET e == IF x.e < y.e THEN x.e ELSE y.e
  IN BigLeq(BigShl(x.m, x.e - e), BigShl(y.m, y.e - e))

\* n / d of two ints that are not negative, d > 0 (true division), and the
\* float a decimal literal n/d denotes: the quotient to 75 binary places, the
\* last place set when the division left a remainder, then rounded
FloatDiv(n, d) ==
  LET num == BigShl(IF n = 0 THEN <<>> ELSE <<n>>, 75)
      q == BigTrim(BigDivDigit(num, d, Len(num), 0))
  IN RoundToFloat(BigAdd(BigShl(q, 1), IF BigMul(q, <<d>>) = num THEN <<>> ELSE <<1>>),
                  0 - 76)

\* the quotients of the sizes of two collections and the floats of the decimal
\* literals 0.0, 0.1 .. 1.0, each computed once
Quotients == [n \in 0..(2 * MaxTags), d \in 1..(2 * MaxTags) |-> FloatDiv(n, d)]
Tenths == [t \in 0..10 |-> FloatDiv(t, 10)]

\* (mutation of _calculate_jaccard_similarity: the lists are not turned into
\* sets, the union is counted from their lengths)
JaccardNoDedup(set1, set2) ==
  LET n1 == IF IsSet(set1) THEN Cardinality(set1.elems) ELSE Len(set1.items)
      n2 == IF IsSet(set2) THEN Cardinality(set2.elems) ELSE Len(set2.items)
      intersection == Cardinality(SetOf(set1) \cap SetOf(set2))
      union == n1 + n2 - intersection
  IN IF union = 0 THEN Tenths[0] ELSE Quotients[intersection, union]

\* (mutation of _calculate_jaccard_similarity: the overlap is divided by the
\* size of the first set)
JaccardOverFirst(set1, set2) ==
  LET intersection == Cardinality(SetOf(set1) \cap SetOf(set2))
      first == Cardinality(SetOf(set1))
  IN IF first = 0 THEN Tenths[0] ELSE Quotients[intersection, first]

\* lines 41-53
_calculate_jaccard_similarity(set1, set2) ==
  LET convert == ~IsSet(set1) \/ ~IsSet(set2)
      s1 == IF convert THEN SetOf(set1) ELSE set1.elems
      s2 == IF convert THEN SetOf(set2) ELSE set2.elems
      intersection == Cardinality(s1 \cap s2)
      union == Cardinality(s1 \cup s2)
  IN IF union = 0 THEN Tenths[0] ELSE Quotients[intersection, union]

\* weights: None, or a dict from some of the keys genre, theme, keyword to a
\* float; the floats are written with one decimal and the dict keeps the
\* number of tenths written (3 for the literal 0.3)
WeightsNone == [none |-> TRUE, w |-> <<>>]
Weights(f) == [none |-> FALSE, w |-> f]

\* (mutation of DefaultWeights)
SkewedWeights == Weights([genre |-> 3, theme |-> 3, keyword |-> 3])

\* line 69
DefaultWeights == Weights([genre |-> 3, theme |-> 4, keyword |-> 3])

\* weights.get(key, default), lines 92-94
WeightGet(weights, k) ==
  Tenths[IF k \in DOMAIN weights.w THEN weights.w[k] ELSE DefaultWeights.w[k]]

\* d.get(key, default)
DictGetOr(d, k, default) == IF HasKey(d, k) THEN DictGet(d, k) ELSE default

\* set(insights.get(key, [])), lines 81-82 and 86-87: None has no get
\* (AttributeError), set(None) is a TypeError
FacetOf(d, k) ==
  IF ~IsDict(d) THEN [exc |-> "AttributeError", set |-> {}]
  ELSE LET v == DictGetOr(d, k, EmptyList) IN
       IF ~IsList(v) THEN [exc |-> "TypeError", set |-> {}]
       ELSE [exc |-> "", set |-> SetOf(v)]

FirstExc(es) ==
  IF \A i \in 1..Len(es) : es[i] = "" THEN ""
  ELSE es[Min({i \in 1..Len(es) : es[i] # ""})]

\* lines 55-105; the score is the float sum, left to right, of the three float
\* products (lines 91-95)
calculate_song_content_similarity(song_a_details, song_b_details, weights0) ==
  LET weights == IF weights0.none THEN DefaultWeights ELSE weights0
      song_a_insights == DictGetOr(song_a_details, "lyrical_insights", EmptyDict)
      song_b_insights == DictGetOr(song_b_details, "lyrical_insights", EmptyDict)
      genres_a == FacetOf(song_a_details, "artist_genres")
      genres_b == FacetOf(song_b_details, "artist_genres")
      themes_a == FacetOf(song_a_insights, "themes")
      themes_b == FacetOf(song_b_insights, "themes")
      keywords_a == FacetOf(song_a_insights, "keywords")
      keywords_b == FacetOf(song_b_insights, "keywords")
      exc == FirstExc(<<genres_a.exc, genres_b.exc, themes_a.exc, themes_b.exc,
                        keywords_a.exc, keywords_b.exc>>)
      g == _calculate_jaccard_similarity(PySet(genres_a.set), PySet(genres_b.set))
      t == _calculate_jaccard_similarity(PySet(themes_a.set), PySet(themes_b.set))
      k == _calculate_jaccard_similarity(PySet(keywords_a.set), PySet(keywords_b.set))
  IN IF exc # "" THEN Escaped(exc, 0)
     ELSE Returned(
            FloatAdd(FloatAdd(FloatMul(g, WeightGet(weights, "genre")),
                              FloatMul(t, WeightGet(weights, "theme"))),
                     FloatMul(k, WeightGet(weights, "keyword"))),
            0, "")

\* ------------------------------------------------------------------ recommender.py 7-38
\* A title is a sequence of lexemes: the characters ( ) [ ] - space newline, a
\* four-digit year, and words.  re.IGNORECASE: the words of the suffix patterns
\* are compared after case folding.
FoldMap ==
  ("Remastered" :> "remastered") @@ ("Radio" :> "radio") @@ ("Edit" :> "edit") @@
  ("Album" :> "album") @@ ("Version" :> "version") @@ ("Single" :> "single") @@
  ("Live" :> "live") @@ ("LIVE" :> "live") @@ ("At" :> "at") @@
  ("Acoustic" :> "acoustic") @@ ("Explicit" :> "explicit") @@
  ("EXPLICIT" :> "explicit")
Fold(x) == IF x \in DOMAIN FoldMap THEN FoldMap[x] ELSE x
\* the lexemes that \d{4} matches
Years == {"2011"}

\* the first closing delimiter at or after k with no newline before it (the dot
\* of .*? does not match a newline), 0 when there is none
RECURSIVE CloseFrom(_, _, _)
CloseFrom(s, k, close) ==
  IF k > Len(s) \/ s[k] = "\n" THEN 0
  ELSE IF s[k] = close THEN k
  ELSE CloseFrom(s, k + 1, close)

\* lines 14 and 16: re.sub(r'\s*\(.*?\)\s*', '', s), scanning from position i
RECURSIVE RemoveDelimited(_, _, _, _)
RemoveDelimited(s, i, open, close) ==
  IF i > Len(s) THEN <<>>
  ELSE LET j == SkipWS(s, i)
           k == IF j <= Len(s) /\ s[j] = open THEN CloseFrom(s, j + 1, close) ELSE 0
       IN IF k # 0 THEN RemoveDelimited(s, SkipWS(s, k + 1), open, close)
          ELSE <<s[i]>> \o RemoveDelimited(s, i + 1, open, close)

\* lines 20-33: the words after the dash; gap TRUE is \s+ between the words
\* (FALSE is \s*), year is a closing \s*\d{4}, rest is a closing \s+.*
SuffixPattern(ws, g, y, r) == [words |-> ws, gap |-> g, year |-> y, rest |-> r]
suffixes_to_remove ==
  << SuffixPattern(<<"remastered">>, FALSE, TRUE, FALSE),
     SuffixPattern(<<"remastered">>, FALSE, FALSE, FALSE),
     SuffixPattern(<<"radio", "edit">>, FALSE, FALSE, FALSE),
     SuffixPattern(<<"album", "version">>, FALSE, FALSE, FALSE),
     SuffixPattern(<<"single", "version">>, FALSE, FALSE, FALSE),
     SuffixPattern(<<"live", "version">>, FALSE, FALSE, FALSE),
     SuffixPattern(<<"live", "at">>, TRUE, FALSE, TRUE),
     SuffixPattern(<<"live">>, FALSE, FALSE, FALSE),
     SuffixPattern(<<"acoustic", "version">>, FALSE, FALSE, FALSE),
     SuffixPattern(<<"acoustic">>, FALSE, FALSE, FALSE),
     SuffixPattern(<<"explicit", "version">>, FALSE, FALSE, FALSE),
     SuffixPattern(<<"explicit">>, FALSE, FALSE, FALSE) >>

\* the words of the pattern from word n on, read from position i: the position
\* after the last word, 0 when they do not match
RECURSIVE MatchWords(_, _, _, _)
MatchWords(p, s, i, n) ==
  IF n > Len(p.words) THEN i
  ELSE LET j == SkipWS(s, i) IN
       IF j > Len(s) \/ Fold(s[j]) # p.words[n] THEN 0
       ELSE IF n > 1 /\ p.gap /\ j = i THEN 0
       ELSE MatchWords(p, s, j + 1, n + 1)

\* \s+.*\s*$ from position q: white space, then text without a newline, then
\* white space up to the end
RestToEnd(s, q) ==
  /\ q <= Len(s) /\ s[q] \in WS
  /\ \E a \in (q + 1)..(Len(s) + 1) : \E e \in a..(Len(s) + 1) :
       /\ \A m \in q..(a - 1) : s[m] \in WS
       /\ \A m \in a..(e - 1) : s[m] # "\n"
       /\ \A m \in e..Len(s) : s[m] \in WS

\* does -<pattern>\s*$ match from the dash at position d to the end
SuffixAt(p, s, d) ==
  /\ s[d] = "-"
  /\ LET q == MatchWords(p, s, d + 1, 1) IN
     /\ q # 0
     /\ IF p.rest THEN RestToEnd(s, q)
        ELSE IF p.year
             THEN LET y == SkipWS(s, q) IN
                  y <= Len(s) /\ s[y] \in Years /\ SkipWS(s, y + 1) > Len(s)
        ELSE SkipWS(s, q) > Len(s)

\* start of the run of white space that ends just before position d
RECURSIVE RunStart(_, _)
RunStart(s, d) == IF d > 1 /\ s[d - 1] \in WS THEN RunStart(s, d - 1) ELSE d

\* line 35 for one pattern: the leftmost match runs to the end and is removed
RemoveSuffix(p, s) ==
  LET ds == {d \in 1..Len(s) : SuffixAt(p, s, d)} IN
  IF ds = {} THEN s ELSE SubSeq(s, 1, RunStart(s, Min(ds)) - 1)

\* lines 34-35: every pattern once, in the order of the list
RECURSIVE RemoveSuffixes(_, _)
RemoveSuffixes(s, n) ==
  IF n > Len(suffixes_to_remove) THEN s
  ELSE RemoveSuffixes(RemoveSuffix(suffixes_to_remove[n], s), n + 1)

\* str.strip(chars)
RECURSIVE LStripChars(_, _)
LStripChars(s, cs) ==
  IF s # <<>> /\ s[1] \in cs THEN LStripChars(Tail(s), cs) ELSE s
RECURSIVE RStripChars(_, _)
RStripChars(s, cs) ==
  IF s # <<>> /\ s[Len(s)] \in cs THEN RStripChars(SubSeq(s, 1, Len(s) - 1), cs) ELSE s
StripChars(s, cs) == LStripChars(RStripChars(s, cs), cs)

\* lines 7-38
_clean_track_title(title) ==
  LET no_parens == RemoveDelimited(title, 1, "(", ")")
      no_brackets == RemoveDelimited(no_parens, 1, "[", "]")
      no_suffix == RemoveSuffixes(no_brackets, 1)
  IN Strip(StripChars(no_suffix, {" ", "-"}))

\* ------------------------------------------------------- recommender.py 108-194
\* lines 157-179: the loop over the similar tracks; an item is another track
\* ("tune"), the input track itself ("same"), an object of an unexpected type
\* ("odd"), or a track whose artist or title cannot be read ("raise")
RECURSIVE CollectSimilar(_, _, _, _)
CollectSimilar(items, i, recommendations, limit) ==
  IF i > Len(items) \/ Len(recommendations) >= limit
  THEN [recs |-> recommendations, exc |-> ""]
  ELSE IF items[i] = "raise" THEN [recs |-> recommendations, exc |-> "Exception"]
  ELSE IF items[i] \in {"same", "odd"}
       THEN CollectSimilar(items, i + 1, recommendations, limit)
  ELSE CollectSimilar(items, i + 1,
                      Append(recommendations,
                             JObj(<<"name", "artist">>, <<JStr("Tune"), JStr("Duo")>>)),
                      limit)

\* lines 140-151: the second request, for the cleaned title.  Cleaning only
\* deletes characters, so the cleaned title differs from the title ignoring
\* case exactly when it differs from it.  Its errors are caught on the spot.
RetryCleanedTitle(track_name, env) ==
  IF _clean_track_title(track_name) # <<>> /\ _clean_track_title(track_name) # track_name
  THEN IF env.cleaned.track = "raise" \/ (env.cleaned.track = "track" /\ env.cleaned.raises)
       THEN [items |-> <<>>, error |-> TRUE]
       ELSE IF env.cleaned.track = "none" THEN [items |-> <<>>, error |-> FALSE]
       ELSE [items |-> env.cleaned.items, error |-> FALSE]
  ELSE [items |-> <<>>, error |-> FALSE]

\* lines 153-194 for the similar tracks found
AfterSimilar(similar, limit) ==
  IF similar.items = <<>>
  THEN Returned(EmptyList, 0, IF similar.error THEN "error_occurred"
                              ELSE "no_similar_tracks")
  ELSE LET c == CollectSimilar(similar.items, 1, <<>>, limit) IN
       Returned(JList(c.recs), 0,
                IF c.exc # "" THEN "error_occurred"
                ELSE IF c.recs = <<>> THEN "no_distinct_similar_tracks"
                ELSE "found")

\* lines 108-194; env: whether there is a network client and what Last.fm
\* answers
get_lastfm_recommendations_for_track(track_name, env) ==
  IF ~env.network THEN Returned(EmptyList, 0, "no_network")
  ELSE IF env.track = "raise" THEN Returned(EmptyList, 0, "error_occurred")
  ELSE IF env.track = "none" THEN Returned(EmptyList, 0, "not_found")
  ELSE IF env.raises THEN Returned(EmptyList, 0, "error_occurred")
  ELSE IF env.items = <<>>
       THEN AfterSimilar(RetryCleanedTitle(track_name, env), env.limit)
  ELSE AfterSimilar([items |-> env.items, error |-> FALSE], env.limit)

\* ------------------------------------------------------------------ main.py 33-96
\* A lyrics text is a sequence of lexemes: single characters, words, and three
\* lexemes that stand for the texts the promotional patterns look for.
LiveGet == "See Duo LiveGet tickets as low as $25"
EmbedShare == "12EmbedShare URLCopyEmbedCopy"
AlsoLike == "You might also like"
\* len() of a lexeme
LexLen ==
  ("[" :> 1) @@ ("]" :> 1) @@ (" " :> 1) @@ ("\n" :> 1) @@ ("love" :> 4) @@
  ("Song" :> 4) @@ ("Band" :> 4) @@ ("Chorus" :> 6) @@ ("Translations" :> 12) @@
  ("Source:" :> 7) @@ (AlsoLike :> 19) @@ (LiveGet :> 37) @@ (EmbedShare :> 29)
RECURSIVE CharLen(_)
CharLen(s) == IF s = <<>> THEN 0 ELSE LexLen[Head(s)] + CharLen(Tail(s))

\* the first position of x in s at or after i, Len(s) + 1 when there is none
RECURSIVE IndexFrom(_, _, _)
IndexFrom(s, i, x) ==
  IF i > Len(s) \/ s[i] = x THEN i ELSE IndexFrom(s, i + 1, x)
Contains(s, x) == IndexFrom(s, 1, x) <= Len(s)

\* str.split('\n') and '\n'.join
RECURSIVE SplitLines(_)
SplitLines(s) ==
  LET n == IndexFrom(s, 1, "\n") IN
  IF n > Len(s) THEN <<s>>
  ELSE <<SubSeq(s, 1, n - 1)>> \o SplitLines(SubSeq(s, n + 1, Len(s)))
RECURSIVE JoinLines(_)
JoinLines(lines) ==
  IF lines = <<>> THEN <<>>
  ELSE IF Len(lines) = 1 THEN lines[1]
  ELSE lines[1] \o <<"\n">> \o JoinLines(Tail(lines))

\* line 63: a '[' directly followed by a section word, and a ']' later in the line
HasSectionTag(line) ==
  \E i \in 1..Len(line) :
    /\ line[i] = "[" /\ i < Len(line) /\ line[i + 1] = "Chorus"
    /\ \E j \in (i + 2)..Len(line) : line[j] = "]"

\* lines 57-67: the first line is dropped when it is a header
DropHeaderLine(text, track_title, artist_name) ==
  LET lines == SplitLines(text) IN
  IF Len(lines) > 1
  THEN IF Contains(lines[1], track_title) /\ HasSectionTag(lines[1])
       THEN JoinLines(Tail(lines))
       ELSE IF /\ Contains(lines[1], artist_name) /\ Contains(lines[1], track_title)
               /\ CharLen(lines[1]) < LexLen[artist_name] + LexLen[track_title] + 10
            THEN JoinLines(Tail(lines))
            ELSE text
  ELSE text

\* line 70: re.sub(r'\[.*?\]', '', s), scanning from position i
RECURSIVE RemoveBracketTags(_, _)
RemoveBracketTags(s, i) ==
  IF i > Len(s) THEN <<>>
  ELSE LET k == IF s[i] = "[" THEN CloseFrom(s, i + 1, "]") ELSE 0
       IN IF k # 0 THEN RemoveBracketTags(s, k + 1)
          ELSE <<s[i]>> \o RemoveBracketTags(s, i + 1)

\* line 72, re.DOTALL: everything from the ticket advert to the end of the text
CutTicketAdvert(s) == SubSeq(s, 1, IndexFrom(s, 1, LiveGet) - 1)

\* lines 73 and 74
RemoveLexeme(s, x) == SelectSeq(s, LAMBDA c : c # x)

\* line 75: 'Translations', the rest of its line, the whitespace after it and
\* a bracketed tag that follows
RECURSIVE RemoveTranslations(_, _)
RemoveTranslations(s, i) ==
  IF i > Len(s) THEN <<>>
  ELSE IF s[i] = "Translations"
       THEN LET j == SkipWS(s, IndexFrom(s, i, "\n"))
                k == IF j <= Len(s) /\ s[j] = "[" THEN CloseFrom(s, j + 1, "]") ELSE 0
            IN RemoveTranslations(s, IF k # 0 THEN k + 1 ELSE j)
       ELSE <<s[i]>> \o RemoveTranslations(s, i + 1)

\* line 76: 'Source:' and the rest of its line
RECURSIVE RemoveSource(_, _)
RemoveSource(s, i) ==
  IF i > Len(s) THEN <<>>
  ELSE IF s[i] = "Source:" THEN RemoveSource(s, IndexFrom(s, i, "\n"))
       ELSE <<s[i]>> \o RemoveSource(s, i + 1)

\* line 80: the lines that are not blank, each stripped
NonEmptyLines(lines) ==
  SelectSeq([n \in 1..Len(lines) |-> Strip(lines[n])], LAMBDA l : l # <<>>)

\* line 81: re.sub(r'(\n\s*){2,}', '\n\n', s): a run of whitespace that starts
\* with a newline and holds another becomes two newlines
RECURSIVE CollapseNewlines(_, _)
CollapseNewlines(s, i) ==
  IF i > Len(s) THEN <<>>
  ELSE LET j == SkipWS(s, i) IN
       IF s[i] = "\n" /\ \E n \in (i + 1)..(j - 1) : s[n] = "\n"
       THEN <<"\n", "\n">> \o CollapseNewlines(s, j)
       ELSE <<s[i]>> \o CollapseNewlines(s, i + 1)

\* lines 56-81.  Line 77 looks for '\d+ ContributorsTranslations...Lyrics', which
\* no text holds once line 75 has cut it at 'Translations'.
CleanLyrics(raw, track_title, artist_name) ==
  LET no_header == DropHeaderLine(raw, track_title, artist_name)
      no_tags == RemoveBracketTags(no_header, 1)
      no_advert == RemoveLexeme(RemoveLexeme(CutTicketAdvert(no_tags), EmbedShare), AlsoLike)
      no_footer == RemoveSource(RemoveTranslations(no_advert, 1), 1)
      joined == JoinLines(NonEmptyLines(SplitLines(no_footer)))
  IN Strip(CollapseNewlines(joined, 1))

\* (mutation of get_lyrics: the test of lines 83-85 is left out)
GetLyricsKeepEmpty(genius_client, track_title, artist_name, answer) ==
  IF ~genius_client THEN LyricsNone
  ELSE IF answer.found # "song" \/ answer.lyrics = <<>> THEN LyricsNone
  ELSE LyricsText(CleanLyrics(answer.lyrics, track_title, artist_name))

\* lines 33-96; answer: what genius_client.search_song did.  The title it is
\* asked for (lines 41-47) does not change what is done with its answer.
get_lyrics(genius_client, track_title, artist_name, answer) ==
  IF ~genius_client THEN LyricsNone
  ELSE IF answer.found # "song" \/ answer.lyrics = <<>> THEN LyricsNone
  ELSE LET lyrics_text == CleanLyrics(answer.lyrics, track_title, artist_name)
       IN IF lyrics_text = <<>> THEN LyricsNone ELSE LyricsText(lyrics_text)

\* ------------------------------------------------------------------ main.py 8-31, 141-280
\* One call of the run, kept in the order the run makes them: the song it is
\* for (its position in the list of liked songs, 0 for a call about all), the
\* kind of call, whether the record had a spotify_info other than None when the
\* call was made, and for a catalog search what the search did.
HasMatch(rec) == DictGetOr(rec, "spotify_info", PyNone) # PyNone
CallOf(i, kind, rec) ==
  [song |-> i, kind |-> kind, matched |-> HasMatch(rec), answer |-> "", arg |-> <<>>]
SearchCall(i, rec, found) ==
  [song |-> i, kind |-> "search", matched |-> HasMatch(rec), answer |-> found,
   arg |-> <<>>]
\* the get_lyrics call of line 171 and the artist name it is given
LyricsCall(i, rec, artist_name) ==
  [song |-> i, kind |-> "lyrics", matched |-> HasMatch(rec), answer |-> "",
   arg |-> artist_name]
\* a get_lyrical_insights call that asked the LLM, and how it ended
InsightCalls(i, rec, r) ==
  IF r.calls = 0 THEN <<>>
  ELSE <<[song |-> i, kind |-> "basic_insights", matched |-> HasMatch(rec),
          answer |-> IF r.exc # "" THEN "insights_raised"
                     ELSE IF r.val = PyNone THEN "insights_none" ELSE "insights",
          arg |-> <<>>]>>

\* a lyrics value of a record as the analysers take it
AsLyrics(v) == IF v.t = "str" THEN LyricsText(<<v.s>>) ELSE LyricsNone

\* line 24: ", ".join of the names of the credited artists, each name a
\* sequence of lexemes
RECURSIVE JoinArtists(_)
JoinArtists(names) ==
  IF names = <<>> THEN <<>>
  ELSE IF Len(names) = 1 THEN names[1]
  ELSE names[1] \o <<",", " ">> \o JoinArtists(Tail(names))
\* the Python string a sequence of lexemes spells
ArtistTexts ==
  (<<"Band", ",", " ", "Ann">> :> "Band, Ann") @@
  (<<"Tyler", ",", " ", "The Creator">> :> "Tyler, The Creator") @@
  (<<"Duo">> :> "Duo")
\* line 170: spotify_track_info['artists'].split(',')[0].strip()
primary_artist_name(artists) == Strip(SubSeq(artists, 1, IndexFrom(artists, 1, ",") - 1))

\* (mutation of search_spotify_track: the top item is reported whatever the
\* search did)
SearchAlwaysItem(song, found) ==
  JObj(<<"id", "name", "artists">>,
       <<JStr("id"), JStr(song.title), JStr(ArtistTexts[JoinArtists(song.credits)])>>)

\* lines 8-31 with sp_client available (line 104 leaves the run otherwise);
\* found: what sp_client.search did
search_spotify_track(song, found) ==
  CASE found = "item" ->
         JObj(<<"id", "name", "artists">>,
              <<JStr("id"), JStr(song.title),
                JStr(ArtistTexts[JoinArtists(song.credits)])>>)
    [] found = "item_without_id" ->
         JObj(<<"id", "name", "artists">>,
              <<JNull, JStr(song.title),
                JStr(ArtistTexts[JoinArtists(song.credits)])>>)
    [] OTHER -> PyNone                      \* "no_items" (28), "raise" (31)

\* line 149
current_song_data(song) ==
  JObj(<<"query", "original_input_title", "original_input_artist", "spotify_info",
         "lyrics", "artist_genres", "lyrical_insights">>,
       <<JStr(song.query), JStr(song.title), JStr(song.artist), PyNone, PyNone,
         EmptyList, PyNone>>)

\* line 178
AnalysisNotPerformed ==
  JObj(<<"themes", "sentiments", "keywords", "overall_summary">>,
       <<EmptyList, EmptyList, EmptyList, JStr("Analysis not performed or failed.")>>)

\* the chat-completion calls of one adapter call, as calls of the run
LlmCalls(i, kind, rec, n) == IF n = 0 THEN <<>> ELSE <<CallOf(i, kind, rec)>>

\* line 178 and what the loop keeps of the analysis r of the lyrics of d1
StoreInsights(d1, c, i, r) ==
  IF r.exc # ""
  THEN [rec |-> d1, calls |-> c \o InsightCalls(i, d1, r), exc |-> r.exc]
  ELSE [rec |-> DictSet(d1, "lyrical_insights",
                        IF Truthy(r.val) THEN r.val ELSE AnalysisNotPerformed),
        calls |-> c \o InsightCalls(i, d1, r), exc |-> ""]

\* lines 172-178 for lyrics that were found
AnalyseLyrics(d1, c, i, env, client) ==
  IF ~client
  THEN [rec |-> DictSet(d1, "lyrical_insights", AnalysisNotPerformed),
        calls |-> c, exc |-> ""]
  ELSE StoreInsights(d1, c, i, get_lyrical_insights(AsLyrics(env.lyrics), client, env.basic))

\* (mutation of FetchLyricsAndInsights: lyrics are asked for whether or not
\* there is a Genius client)
FetchLyricsWithoutClient(d, c, i, env, genius, client, artists) ==
  IF ~Truthy(env.lyrics)
  THEN [rec |-> d,
        calls |-> Append(c, LyricsCall(i, d, primary_artist_name(artists))),
        exc |-> ""]
  ELSE AnalyseLyrics(DictSet(d, "lyrics", env.lyrics),
                     Append(c, LyricsCall(i, d, primary_artist_name(artists))),
                     i, env, client)

\* lines 167-178 for a record d whose search matched; c: the calls so far;
\* artists: the lexemes of spotify_track_info['artists']
FetchLyricsAndInsights(d, c, i, env, genius, client, artists) ==
  IF ~genius THEN [rec |-> d, calls |-> c, exc |-> ""]
  ELSE IF ~Truthy(env.lyrics)
       THEN [rec |-> d,
             calls |-> Append(c, LyricsCall(i, d, primary_artist_name(artists))),
             exc |-> ""]
  ELSE AnalyseLyrics(DictSet(d, "lyrics", env.lyrics),
                     Append(c, LyricsCall(i, d, primary_artist_name(artists))),
                     i, env, client)

\* lines 156-165 for a record d1 that has its spotify_info
FetchGenres(d1, env) ==
  IF env.genres.t = "list" THEN DictSet(d1, "artist_genres", env.genres) ELSE d1

\* lines 152-182 given the answer of the search
AfterSearch(d0, info, i, env, genius, client, artists) ==
  IF Truthy(info) /\ Truthy(DictGet(info, "id"))
  THEN FetchLyricsAndInsights(
         FetchGenres(DictSet(d0, "spotify_info", info), env),
         <<SearchCall(i, d0, env.search),
           CallOf(i, "genres", DictSet(d0, "spotify_info", info))>>,
         i, env, genius, client, artists)
  ELSE [rec |-> d0, calls |-> <<SearchCall(i, d0, env.search)>>, exc |-> ""]

\* lines 141-184, one pass of the loop: the record appended, the calls made and
\* the exception that leaves the loop, if any
ProcessLikedSong(song, i, env, genius, client) ==
  AfterSearch(current_song_data(song), search_spotify_track(song, env.search),
              i, env, genius, client, JoinArtists(song.credits))

\* line 187
valid_liked_songs(processed_liked_songs_data) ==
  SelectSeq(processed_liked_songs_data, LAMBDA s : Truthy(DictGet(s, "spotify_info")))
\* the positions in the list of liked songs of the songs line 187 keeps
valid_positions(processed_liked_songs_data) ==
  SelectSeq([i \in 1..Len(processed_liked_songs_data) |-> i],
            LAMBDA i : Truthy(DictGet(processed_liked_songs_data[i], "spotify_info")))

\* lines 232-233, 253-254
TitleForLlm(d) ==
  DictGetOr(d, "spotify_name", DictGetOr(d, "original_input_title", JStr("Unknown Title")))
ArtistForLlm(d) ==
  DictGetOr(d, "spotify_artists",
            DictGetOr(d, "original_input_artist", JStr("Unknown Artist")))

\* lines 241-247: the copy after the augmentation step; a: what the call did.
\* An exception of the call is caught and leaves the copy as it was.
AugmentCopy(copy, a) ==
  IF a.exc = "" /\ Truthy(a.val) THEN DictUpdate(copy, a.val).val ELSE copy

\* lines 262-268: r is what get_rich_lyrical_insights did
StoreRichInsights(copy, c, i, r) ==
  [rec |-> IF r.exc = "" /\ Truthy(r.val)
           THEN DictSet(copy, "rich_lyrical_analysis", r.val) ELSE copy,
   calls |-> Append(c, CallOf(i, "rich_insights", copy))]

\* lines 249-272 for the copy the augmentation step left
RichStep(copy, c, i, env, client) ==
  IF Truthy(DictGetOr(copy, "lyrics", PyNone))
  THEN StoreRichInsights(copy, c, i,
         get_rich_lyrical_insights(AsLyrics(DictGetOr(copy, "lyrics", PyNone)),
                                   TitleForLlm(copy), ArtistForLlm(copy),
                                   client, env.rich))
  ELSE [rec |-> copy, calls |-> c]

AfterAugment(song_details, a, i, env, client) ==
  RichStep(AugmentCopy(song_details, a),
           LlmCalls(i, "augment", song_details, a.calls), i, env, client)

\* lines 222-272, one pass of the loop
DeepEnrichSong(song_details, i, env, client) ==
  AfterAugment(song_details,
               augment_song_details_with_llm(song_details, client, env.augment),
               i, env, client)

\* ------------------------------------------- main.py 141-184, 222-272 by steps
\* the locals of the pass for one song: the record of line 149, and the copy of
\* line 225 once the second loop has made it
NewFrame(song) ==
  [at |-> "search", song_data |-> current_song_data(song), copy |-> PyNone]

\* lines 184-222: the record is appended; the second loop takes it up when there
\* is a client and the song was matched
AfterFirstLoop(song_data, client) ==
  IF client /\ Truthy(DictGet(song_data, "spotify_info")) THEN "augment" ELSE "done"

\* lines 151-184, one collaborator call at a time; f: the locals of the pass
FirstLoopStep(f, song, env, genius, client) ==
  CASE f.at = "search" ->
         LET info == search_spotify_track(song, env.search) IN
         IF Truthy(info) /\ Truthy(DictGet(info, "id"))
         THEN [f EXCEPT !.at = "genres",
                        !.song_data = DictSet(f.song_data, "spotify_info", info)]
         ELSE [f EXCEPT !.at = AfterFirstLoop(f.song_data, client)]
    [] f.at = "genres" ->
         [f EXCEPT !.at = IF genius THEN "lyrics"
                          ELSE AfterFirstLoop(f.song_data, client),
                   !.song_data = FetchGenres(f.song_data, env)]
    [] f.at = "lyrics" ->
         IF Truthy(env.lyrics)
         THEN [f EXCEPT !.at = "insights",
                        !.song_data = DictSet(f.song_data, "lyrics", env.lyrics)]
         ELSE [f EXCEPT !.at = AfterFirstLoop(f.song_data, client)]
    [] OTHER ->                                             \* "insights"
         IF ~client
         THEN [f EXCEPT !.at = "done",
                        !.song_data = DictSet(f.song_data, "lyrical_insights",
                                              AnalysisNotPerformed)]
         ELSE LET r == get_lyrical_insights(AsLyrics(DictGet(f.song_data, "lyrics")),
                                            client, env.basic) IN
              IF r.exc # "" THEN [f EXCEPT !.at = "raised"]
              ELSE [f EXCEPT !.at = AfterFirstLoop(f.song_data, client),
                             !.song_data =
                               DictSet(f.song_data, "lyrical_insights",
                                       IF Truthy(r.val) THEN r.val
                                       ELSE AnalysisNotPerformed)]

\* lines 225-272, one collaborator call at a time
SecondLoopStep(f, w, env, client) ==
  IF f.at = "augment"
  THEN [f EXCEPT !.at = "rich",
                 !.copy = AugmentCopy(f.song_data,
                            augment_song_details_with_llm(f.song_data, client,
                                                          env.augment))]
  ELSE [f EXCEPT !.at = "done", !.copy = RichStep(f.copy, <<>>, w, env, client).rec]

SongStep(f, song, w, env, genius, client) ==
  IF f.at \in {"augment", "rich"} THEN SecondLoopStep(f, w, env, client)
  ELSE FirstLoopStep(f, song, env, genius, client)

\* (mutation of FrameOf: the passes of all songs use the locals of the first)
SharedFrame(w) == 1

\* each pass has locals of its own: line 149 builds a new record and line 225 a
\* new copy for every song
FrameOf(w) == w

\* ------------------------------------------------------------------ main.py 192-216
\* ', '.join(v) raises for a list with an item that is not a string
JoinRaises(v) ==
  Truthy(v) /\ (v.t \notin {"list", "str", "obj"}
                \/ (v.t = "list" /\ \E i \in 1..Len(v.items) : v.items[i].t # "str"))
\* lines 205-207: sent.get on every item of the sentiments
SentimentsRaise(v) ==
  Truthy(v) /\ (v.t # "list" \/ \E i \in 1..Len(v.items) : v.items[i].t # "obj")
\* lines 201-209, the branch that prints the analysis
PrintAnalysis(insights) ==
  IF JoinRaises(DictGetOr(insights, "themes", PyNone)) THEN Escaped("TypeError", 0)
  ELSE IF SentimentsRaise(DictGetOr(insights, "sentiments", PyNone))
       THEN Escaped(IF DictGet(insights, "sentiments").t = "num"
                    THEN "TypeError"            \* for sent in a number
                    ELSE "AttributeError", 0)   \* sent.get on a string
  ELSE IF JoinRaises(DictGetOr(insights, "keywords", PyNone))
       THEN Escaped("TypeError", 0)
  ELSE Returned(JStr("Lyrical Summary"), 0, "")
\* lines 197-216: what the summary prints about the lyrical insights of one
\* valid song
summary_of_insights(song_data) ==
  IF ~Truthy(DictGet(song_data, "lyrics"))
  THEN Returned(JStr("Not performed (no lyrics)."), 0, "")
  ELSE LET insights == DictGetOr(song_data, "lyrical_insights", PyNone) IN
       IF ~Truthy(insights)
       THEN Returned(JStr("Not available or analysis failed."), 0, "")
       ELSE IF insights.t # "obj" THEN Escaped("AttributeError", 0)
       ELSE LET overall == DictGetOr(insights, "overall_summary", PyNone) IN
            IF overall # JStr("Analysis not performed or failed.")
               /\ overall # JStr("Lyrics were empty.")
            THEN PrintAnalysis(insights)
            ELSE IF overall = JStr("Lyrics were empty.")
                 THEN Returned(JStr("Lyrics were empty, analysis skipped."), 0, "")
            ELSE Returned(JStr("Not available or analysis failed."), 0, "")
\* lines 193-216 raise when the summary of one of the valid songs does
SummaryRaises(valid_songs) ==
  \E i \in 1..Len(valid_songs) : summary_of_insights(valid_songs[i]).exc # ""

\* ------------------------------------------------------------------ app.py 195-251
\* line 218-225
AppSongData(song, env) ==
  JObj(<<"original_input_title", "original_input_artist", "spotify_info",
         "artist_genres", "lyrics", "lyrical_insights">>,
       <<JStr(song.title), JStr(song.artist),
         JObj(<<"id", "name", "artists">>,
              <<JStr("id"), JStr(song.title), JStr(song.artist)>>),
         IF env.genres.t = "list" THEN env.genres ELSE EmptyList,
         env.lyrics, PyNone>>)

\* lines 203-216: the artist lookup (sp_client.track raises AttributeError when
\* sp_client is None, and no request is made) and the lyrics request
AppLookups(song_data, i, spotify) ==
  (IF spotify THEN <<CallOf(i, "genres", song_data)>> ELSE <<>>)
  \o <<CallOf(i, "lyrics", song_data)>>

\* lines 228-233: r is what get_lyrical_insights did; its exception is dropped
AppStoreInsights(song_data, i, r, spotify) ==
  [rec |-> IF r.exc = "" THEN DictSet(song_data, "lyrical_insights", r.val)
           ELSE song_data,
   calls |-> AppLookups(song_data, i, spotify) \o InsightCalls(i, song_data, r)]

\* lines 195-235, one pass of the first loop; song: the id, name and artist the
\* page sent
AppProcessSong(song, i, env, client, spotify) ==
  IF Truthy(env.lyrics) /\ client
  THEN AppStoreInsights(AppSongData(song, env), i,
                        get_lyrical_insights(AsLyrics(env.lyrics), client, env.basic),
                        spotify)
  ELSE [rec |-> AppSongData(song, env),
        calls |-> AppLookups(AppSongData(song, env), i, spotify)]

AppAfterAugment(song_data, a, i) ==
  [rec |-> AugmentCopy(song_data, a),
   calls |-> LlmCalls(i, "augment", song_data, a.calls)]

\* lines 239-251, one pass of the second loop
AppEnrichSong(song_data, i, env, client) ==
  AppAfterAugment(song_data,
                  augment_song_details_with_llm(song_data, client, env.augment), i)

\* ------------------------------------------------------------------ json.dumps
Quote(x) == CHOOSE q \in StrLits : Unquote[q] = x

RECURSIVE Dumps(_)
RECURSIVE DumpItems(_, _)
RECURSIVE DumpMembers(_, _)

DumpItems(xs, i) ==
  IF i > Len(xs) THEN <<>>
  ELSE (IF i > 1 THEN <<",", " ">> ELSE <<>>) \o Dumps(xs[i]) \o DumpItems(xs, i + 1)

DumpMembers(d, i) ==
  IF i > Len(d.keys) THEN <<>>
  ELSE (IF i > 1 THEN <<",", " ">> ELSE <<>>)
       \o <<Quote(d.keys[i]), ":", " ">> \o Dumps(d.items[i]) \o DumpMembers(d, i + 1)

Dumps(v) ==
  CASE v.t = "null" -> <<"null">>
    [] v.t = "str" -> <<Quote(v.s)>>
    [] v.t = "num" -> <<v.s>>
    [] v.t = "list" -> <<"[">> \o DumpItems(v.items, 1) \o <<"]">>
    [] OTHER -> <<"{">> \o DumpMembers(v, 1) \o <<"}">>

\* ------------------------------------------------------------------ inputs
SeqsUpTo(S, n) == UNION {[1..k -> S] : k \in 0..n}

\* a liked song as the front doors build it (main.py 149, app.py 218-225)
LikedSong(title, artist) ==
  JObj(<<"original_input_title", "original_input_artist">>, <<JStr(title), JStr(artist)>>)
LikedPool == {LikedSong("Song", "Band"), LikedSong("Tune", "Duo")}
LikedLists == SeqsUpTo(LikedPool, MaxLiked)

\* one element of the array the prompt asks for (recommender.py 256-260)
Rec(artist, title) ==
  JObj(<<"artist", "title", "justification">>,
       <<JStr(artist), JStr(title), JStr("because")>>)
RecPool ==
  {Rec("Band", "Song"), Rec("band", "song"), Rec("Duo", "Tune"),
   JNum("5")}
RecLists == {JList(x) : x \in SeqsUpTo(RecPool, MaxRecs)}
ShortRecLists == {JList(x) : x \in SeqsUpTo({Rec("Band", "Song"), Rec("Duo", "Tune")}, 1)}

\* the JSON values an LLM reply may carry
ReplyValues ==
  RecLists
  \cup {JObj(<<"recommendations">>, <<l>>) : l \in RecLists}
  \cup {JObj(<<"other", "recommendations">>, <<a, b>>) : a, b \in ShortRecLists}
  \cup {JObj(<<"other", "recommendations">>, <<JNum("5"), l>>) : l \in ShortRecLists}
  \cup {JNum("5"), JStr("Song"), JNull, EmptyDict, JObj(<<"other">>, <<JNum("5")>>)}

\* texts that are not JSON
Junk == {<<"oops">>, <<"[", "5", ",", "]">>, <<"[">>, <<"5", " ", "5">>}

\* a reply body bare, or inside a markdown code fence
Wrappers == {"bare", "json_fence", "spaced_json_fence", "plain_fence", "open_json_fence"}
Wrap(w, body) ==
  CASE w = "bare" -> body
    [] w = "json_fence" -> <<Fence, JsonTag, "\n">> \o body \o <<"\n", Fence>>
    [] w = "spaced_json_fence" -> <<" ", Fence, JsonTag>> \o body \o <<Fence, "\n">>
    [] w = "plain_fence" -> <<Fence, "\n">> \o body \o <<"\n", Fence>>
    [] OTHER -> <<Fence, JsonTag, "\n">> \o body

HolisticBodies == {Dumps(v) : v \in ReplyValues} \cup Junk
HolisticReplies ==
  {LlmRaise, LlmRaiseJson, LlmNone, LlmText(<<>>)}
  \cup {LlmText(Wrap(w, b)) : w \in Wrappers, b \in HolisticBodies}

\* sequences over S of length at most n with no element twice
DistinctSeqsUpTo(S, n) ==
  {q \in SeqsUpTo(S, n) : \A a, b \in 1..Len(q) : a # b => q[a] # q[b]}

\* the dicts with at most n keys, keys from K (in any order), values from V
DictsUpTo(K, V, n) ==
  UNION {{JObj(ks, vs) : vs \in [1..Len(ks) -> V]} : ks \in DistinctSeqsUpTo(K, n)}

\* the record augment_song_details_with_llm is given
ExistingDetails == DictsUpTo({"genre", "lyrics"}, {JStr("rock"), JStr("love")}, MaxKeys)

\* the JSON objects an augmentation reply may carry
AugmentObjects ==
  DictsUpTo({"genre", "composers", "lyrics"},
            {JStr("metal"), JNull, JList(<<JStr("Ann")>>)}, MaxKeys)

AugmentBodies ==
  {Dumps(v) : v \in AugmentObjects}
  \cup {Dumps(v) : v \in {JNum("5"), JNull, JStr("rock"), EmptyList,
                          JList(<<JList(<<JStr("genre"), JStr("metal")>>)>>),
                          JList(<<JList(<<JStr("genre")>>)>>),
                          JList(<<JNum("5")>>),
                          JList(<<JObj(<<"genre", "composers">>, <<JNum("5"), JNum("7")>>)>>)}}
  \cup {<<"{", "\"genre\"", ":", "\"metal\"", ",", "\"genre\"", ":", "null", "}">>,
        <<"{", "\"genre\"", ":", "}">>,
        <<Fence, JsonTag, "\n", "{", "}", "\n", Fence>>}
  \cup Junk

AugmentReplies ==
  {LlmRaise, LlmRaiseJson, LlmNone, LlmText(<<>>)} \cup {LlmText(b) : b \in AugmentBodies}

\* lyrics texts: words and white space
LyricsTexts ==
  {LyricsNone} \cup {LyricsText(t) : t \in SeqsUpTo({" ", "\n", "la"}, MaxLyricsLen)}

\* a reply in the basic schema and one in the rich schema (the prompts of
\* lyrics_analyzer.py 31-39 and 115-180), and replies of other shapes
BasicReply ==
  JObj(<<"themes", "sentiments", "keywords", "overall_summary">>,
       <<JList(<<JStr("love")>>), EmptyList, JList(<<JStr("love")>>), JStr("love")>>)
RichReply ==
  JObj(<<"song_title", "artist_name", "analysis_model", "overall_interpretation",
         "concise_summary", "detailed_breakdown", "llm_confidence_notes">>,
       <<JStr("Song"), JStr("Band"), JStr("gpt-4o"), JStr("love"), JStr("love"),
         EmptyDict, JStr("love")>>)

InsightBodies ==
  {Dumps(v) : v \in {BasicReply, RichReply, JObj(<<"foo">>, <<JNum("5")>>),
                     JObj(<<"themes">>, <<EmptyList>>), EmptyDict, EmptyList,
                     JNum("5"), JNull, JStr("love")}}
  \cup {<<Fence, JsonTag, "\n">> \o Dumps(BasicReply) \o <<"\n", Fence>>}
  \cup Junk

InsightReplies ==
  {LlmRaise, LlmRaiseJson, LlmNone, LlmText(<<>>)} \cup {LlmText(b) : b \in InsightBodies}

\* the liked songs typed in (main.py 122-129) or sent by the page (app.py 187),
\* each with the artists the catalog credits for its match
LikedInput ==
  << [title |-> "Song", artist |-> "Band", query |-> "Song - Band",
      credits |-> <<<<"Band">>, <<"Ann">>>>],
     [title |-> "Tune", artist |-> "Tyler", query |-> "Tune - Tyler",
      credits |-> <<<<"Tyler", ",", " ", "The Creator">>>>],
     [title |-> "Song", artist |-> "Duo", query |-> "Song - Duo",
      credits |-> <<<<"Duo">>>>] >>
SongInputs == {SubSeq(LikedInput, 1, n) : n \in 1..MaxSongs}

\* what the services answer for one song of the first loop: the catalog search,
\* the artist lookup (None: it raised), the lyrics search, the basic analysis
SearchOutcomes == {"item", "item_without_id", "no_items", "raise"}
ProcessEnvs ==
  [search : SearchOutcomes, genres : {JList(<<JStr("rock")>>), PyNone},
   lyrics : {JStr("la"), PyNone},
   basic : {LlmRaise, LlmRaiseJson, LlmText(Dumps(BasicReply))}]

\* what the LLM answers for one song of the second loop
LoopAugmentObjects ==
  {JObj(<<"composers">>, <<JList(<<JStr("Ann")>>)>>),
   JObj(<<"lyrical_insights">>, <<BasicReply>>),
   JObj(<<"lyrics">>, <<JNull>>),
   JObj(<<"spotify_info">>, <<JNull>>)}
\* every answer to the augmentation with a rich analysis that succeeds, and one
\* pass whose rich analysis raises
DeepEnvs ==
  [augment : {LlmRaise, LlmRaiseJson} \cup {LlmText(Dumps(v)) : v \in LoopAugmentObjects},
   rich : {LlmText(Dumps(RichReply))}]
  \cup [augment : {LlmText(Dumps(JObj(<<"composers">>, <<JList(<<JStr("Ann")>>)>>)))},
        rich : {LlmRaise}]
ReportReplies == {LlmRaise, LlmNone, LlmText(Dumps(JList(<<Rec("Duo", "Tune")>>)))}

\* what the services answer a /get_recommendations request: for one song of
\* the first loop, for one song of the second, and for the holistic request
AppProcessEnvs ==
  [genres : {JList(<<JStr("rock")>>), PyNone}, lyrics : {JStr("la"), PyNone},
   basic : {LlmRaise, LlmText(Dumps(BasicReply))}]
AppDeepEnvs ==
  [augment : {LlmRaise, LlmText(Dumps(JObj(<<"composers">>, <<JList(<<JStr("Ann")>>)>>))),
              LlmText(Dumps(JObj(<<"lyrical_insights">>, <<BasicReply>>)))}]
AppReportReplies ==
  {LlmRaise, LlmNone,
   LlmText(Dumps(JList(<<Rec("Duo & Ann", "Tune"), Rec("R&B", "Duo & Ann")>>))),
   LlmText(Dumps(JList(<<Rec("Band", "Song"), JNum("5")>>)))}

\* song records given to calculate_song_content_similarity
TagLists == {JList(x) : x \in SeqsUpTo({JStr("rock"), JStr("metal")}, MaxTags)}
\* the lyrical_insights of a record: the key absent, None, or a dict
InsightsAbsent == [t |-> "absent", s |-> "", keys |-> <<>>, items |-> <<>>]
InsightChoices ==
  {InsightsAbsent, PyNone}
  \cup {JObj(<<"themes", "keywords">>, <<JList(t), JList(k)>>) :
          t \in {<<>>, <<JStr("love")>>},
          k \in {<<>>, <<JStr("foo"), JStr("love")>>}}
SimSong(genres, insights) ==
  IF insights = InsightsAbsent THEN JObj(<<"artist_genres">>, <<genres>>)
  ELSE JObj(<<"artist_genres", "lyrical_insights">>, <<genres, insights>>)
SimSongs == {SimSong(g, i) : g \in TagLists, i \in InsightChoices}
WeightChoices ==
  {WeightsNone, Weights(<<>>),
   Weights([genre |-> 1, theme |-> 2, keyword |-> 7]),
   Weights([genre |-> 10]), Weights([theme |-> 5, keyword |-> 5])}

\* collections given to _calculate_jaccard_similarity: lists and sets
Collections == TagLists \cup {PySet(S) : S \in SUBSET {JStr("rock"), JStr("metal")}}

\* track titles: free sequences of lexemes, and a name followed by suffixes that
\* the list of patterns names, one spelling for each pattern
TitleLexemes == {"(", ")", "[", "]", " ", "\n", "-", "Live"}
SuffixSpellings ==
  { <<>>,
    <<" ", "-", " ", "Remastered", " ", "2011">>, <<"-", "Remastered">>,
    <<" ", "-", "Radio", " ", "Edit">>, <<"-", "Album", "Version">>,
    <<"-", "Single", " ", "Version">>, <<"-", "Live", "Version">>,
    <<" ", "-", " ", "Live", " ", "At", " ", "a">>, <<" ", "-", " ", "LIVE">>,
    <<"-", "Acoustic", " ", "Version">>, <<"-", "Acoustic">>,
    <<"-", "Explicit", "Version">>, <<"-", "EXPLICIT", " ">> }
Titles ==
  SeqsUpTo(TitleLexemes, MaxTitleLen)
  \cup {<<"a">> \o x \o y : x, y \in SuffixSpellings}
  \cup {<<"a", " ", "(", "Live", ")">> \o x : x \in SuffixSpellings}


\* what genius_client.search_song answers: it raises (a timeout or another
\* error), finds no song, or finds a song with its raw lyrics: a header line, a
\* free text and a footer
RawHeaders ==
  { <<>>, <<"Song", " ", "[", "Chorus", "]", "\n">>, <<"Band", " ", "Song", "\n">>,
    <<"[", "Translations", "\n">> }
RawFooters ==
  { <<>>, <<"\n", AlsoLike>>, <<" ", "Source:", "love">>, <<LiveGet, "\n", "love">>,
    <<EmbedShare>> }
RawLyrics ==
  {h \o c \o f : h \in RawHeaders,
                 c \in SeqsUpTo({"[", "]", "\n", " ", "love"}, MaxRawLen),
                 f \in RawFooters}
GeniusAnswers ==
  {[found |-> x, lyrics |-> <<>>] : x \in {"timeout", "raise", "none"}}
  \cup {[found |-> "song", lyrics |-> t] : t \in RawLyrics}

\* ------------------------------------------------------------------ state
\* family: which adapter the arguments were drawn for;
\* in_*: the arguments of the call (drawn in Init and then fixed);
\* op: "idle" before the call, then the operation that ran;
\* ret: what it handed back; outcome: what a front door reported to the user
VARIABLES family, op, in_client, in_liked, in_llm, in_existing, in_lyrics, ret, outcome,
          in_songs, genius, pc, idx, processed, valid, enriched, calls,
          in_a, in_b, in_weights, in_title, in_raw, in_spotify, in_lastfm, in_envs,
          existing_details, frames

inputs == <<family, in_client, in_liked, in_llm, in_existing, in_lyrics,
            in_songs, genius, in_a, in_b, in_weights, in_title, in_raw, in_spotify,
            in_lastfm, in_envs>>
\* the locals of the two enrichment loops and the position in them
loops == <<pc, idx, processed, valid, enriched, calls>>
\* the mapping augment_song_details_with_llm was given as existing_details, as
\* its caller sees it, and the locals of the passes of interleaved enrichment
heap == <<existing_details, frames>>
vars == <<inputs, loops, heap, op, ret, outcome>>

NoResult == Returned(PyNone, 0, "")

NoLoopInputs == in_songs = <<>> /\ genius = FALSE /\ in_spotify = FALSE
NoScoreInputs ==
  /\ in_a = EmptyDict /\ in_b = EmptyDict /\ in_weights = WeightsNone /\ in_title = <<>>
  /\ in_raw = [found |-> "none", lyrics |-> <<>>]
NoAdapterInputs ==
  in_liked = <<>> /\ in_llm = LlmNone /\ in_existing = EmptyDict /\ in_lyrics = LyricsNone

HolisticInputs ==
  /\ family = "holistic"
  /\ in_liked \in LikedLists
  /\ in_llm \in HolisticReplies
  /\ in_existing = EmptyDict
  /\ in_lyrics = LyricsNone

AugmentInputs ==
  /\ family = "augment"
  /\ in_liked \in {<<x>> : x \in LikedPool}
  /\ in_llm \in AugmentReplies
  /\ in_existing \in ExistingDetails
  /\ in_lyrics = LyricsNone

InsightInputs ==
  /\ family = "insights"
  /\ in_liked \in {<<x>> : x \in LikedPool}
  /\ in_llm \in InsightReplies
  /\ in_existing = EmptyDict
  /\ in_lyrics \in LyricsTexts

\* run_recommender after its clients are built and the songs are read (main.py
\* 103-136), and the /get_recommendations handler on entry
LoopInputs ==
  /\ family \in {"run", "app"}
  /\ in_client \in BOOLEAN
  /\ in_songs \in SongInputs
  /\ genius \in (IF family = "run" THEN BOOLEAN ELSE {FALSE})
  /\ in_spotify \in BOOLEAN
  /\ NoAdapterInputs /\ NoScoreInputs

SimilarityInputs ==
  /\ family = "similarity"
  /\ in_a \in SimSongs /\ in_b \in SimSongs /\ in_weights \in WeightChoices
  /\ in_title = <<>> /\ in_raw = [found |-> "none", lyrics |-> <<>>] /\ genius = FALSE

JaccardInputs ==
  /\ family = "jaccard"
  /\ in_a \in Collections /\ in_b \in Collections
  /\ in_weights = WeightsNone /\ in_title = <<>>
  /\ in_raw = [found |-> "none", lyrics |-> <<>>] /\ genius = FALSE

TitleInputs ==
  /\ family = "title"
  /\ in_title \in Titles
  /\ in_a = EmptyDict /\ in_b = EmptyDict /\ in_weights = WeightsNone
  /\ in_raw = [found |-> "none", lyrics |-> <<>>] /\ genius = FALSE

\* the values of lyrical_insights the summary is asked about: the record
\* get_lyrical_insights returns for empty lyrics, the placeholder of line 178,
\* an analysis, no analysis, and records and values of other shapes
SummaryInsights ==
  { BasicSentinel, AnalysisNotPerformed, BasicReply, PyNone, EmptyDict,
    JObj(<<"overall_summary">>, <<JStr("Lyrics were empty.")>>),
    JObj(<<"themes", "overall_summary">>, <<JList(<<EmptyDict>>), JStr("love")>>),
    JObj(<<"sentiments">>, <<JList(<<JStr("joy")>>)>>),
    JObj(<<"overall_summary", "sentiments">>, <<JStr("love"), JNum("5")>>),
    JObj(<<"sentiments">>,
         <<JList(<<JObj(<<"sentiment_type">>, <<JStr("joy")>>)>>)>>),
    JList(<<JStr("love")>>), JStr("love") }
SummarySongs ==
  { JObj(<<"spotify_info", "artist_genres", "lyrics", "lyrical_insights">>,
         <<JObj(<<"id", "name", "artists">>, <<JStr("id"), JStr("Song"), JStr("Band")>>),
           EmptyList, l, v>>) :
      l \in {JStr("la"), PyNone}, v \in SummaryInsights }

SummaryInputs ==
  /\ family = "summary"
  /\ in_a \in SummarySongs
  /\ in_b = EmptyDict /\ in_weights = WeightsNone /\ in_title = <<>>
  /\ in_raw = [found |-> "none", lyrics |-> <<>>] /\ genius = FALSE

\* what the services answer for the six calls of one song, when the passes of
\* two songs are interleaved
InterleavedEnvs ==
  { [search |-> "item", genres |-> JList(<<JStr("rock")>>), lyrics |-> JStr("la"),
     basic |-> LlmText(Dumps(BasicReply)),
     augment |-> LlmText(Dumps(JObj(<<"composers">>, <<JList(<<JStr("Ann")>>)>>))),
     rich |-> LlmText(Dumps(RichReply))],
    [search |-> "no_items", genres |-> PyNone, lyrics |-> PyNone, basic |-> LlmRaise,
     augment |-> LlmRaise, rich |-> LlmRaise],
    [search |-> "item", genres |-> JList(<<JStr("rock")>>), lyrics |-> JStr("la"),
     basic |-> LlmRaise,
     augment |-> LlmText(Dumps(JObj(<<"lyrics">>, <<JNull>>))),
     rich |-> LlmText(Dumps(RichReply))],
    [search |-> "item", genres |-> PyNone, lyrics |-> PyNone, basic |-> LlmRaise,
     augment |-> LlmRaiseJson, rich |-> LlmRaise],
    [search |-> "item", genres |-> JList(<<JStr("rock")>>), lyrics |-> JStr("la"),
     basic |-> LlmRaiseJson, augment |-> LlmRaise, rich |-> LlmRaise],
    [search |-> "item", genres |-> JList(<<JStr("rock")>>), lyrics |-> JStr("la"),
     basic |-> LlmText(Dumps(BasicReply)),
     augment |-> LlmText(Dumps(JObj(<<"lyrical_insights">>, <<BasicReply>>))),
     rich |-> LlmRaise] }

\* the passes of the first two liked songs, run in any interleaving
InterleavedInputs ==
  /\ family = "interleaved"
  /\ in_client \in BOOLEAN /\ genius \in BOOLEAN /\ in_spotify = TRUE
  /\ in_songs = SubSeq(LikedInput, 1, 2)
  /\ NoAdapterInputs /\ NoScoreInputs

\* what Last.fm answers: get_track (a track, None, or it raises), get_similar
\* (it raises, or the items), the same for the cleaned title, and the limit
SimilarItems == SeqsUpTo({"tune", "same", "odd", "raise"}, MaxSimilar)
CleanedAnswers ==
  { [track |-> "raise", raises |-> FALSE, items |-> <<>>],
    [track |-> "none", raises |-> FALSE, items |-> <<>>],
    [track |-> "track", raises |-> TRUE, items |-> <<>>],
    [track |-> "track", raises |-> FALSE, items |-> <<>>],
    [track |-> "track", raises |-> FALSE, items |-> <<"tune">>],
    [track |-> "track", raises |-> FALSE, items |-> <<"tune", "raise">>] }
NoLastfm ==
  [network |-> FALSE, track |-> "none", raises |-> FALSE, items |-> <<>>,
   cleaned |-> [track |-> "none", raises |-> FALSE, items |-> <<>>], limit |-> 1]
LastfmAnswers ==
  {e \in [network : BOOLEAN, track : {"track", "none", "raise"}, raises : BOOLEAN,
          items : SimilarItems, cleaned : CleanedAnswers, limit : {1, 2}] :
     /\ e.raises => e.items = <<>>
     /\ (~e.network \/ e.track # "track") => (~e.raises /\ e.items = <<>>)
     /\ (e.items # <<>> \/ e.raises \/ e.track # "track")
          => e.cleaned = [track |-> "none", raises |-> FALSE, items |-> <<>>]}
LastfmTitles == {<<"a">>, <<"a", " ", "(", "Live", ")">>, <<"(", "Live", ")">>}

LastfmInputs ==
  /\ family = "lastfm"
  /\ in_title \in LastfmTitles
  /\ in_a = EmptyDict /\ in_b = EmptyDict /\ in_weights = WeightsNone
  /\ in_raw = [found |-> "none", lyrics |-> <<>>] /\ genius = FALSE

\* get_lyrics for the track 'Song' of the artist 'Band'
LyricsInputs ==
  /\ family = "lyrics"
  /\ genius \in BOOLEAN
  /\ in_raw \in GeniusAnswers
  /\ in_title = <<"Song">>
  /\ in_a = EmptyDict /\ in_b = EmptyDict /\ in_weights = WeightsNone
  /\ in_songs = <<>>

Init ==
  /\ op = "idle"
  /\ ret = NoResult
  /\ outcome = ""
  /\ pc = "process" /\ idx = 1 /\ processed = <<>> /\ valid = <<>>
  /\ enriched = <<>> /\ calls = <<>>
  /\ \/ /\ in_client \in BOOLEAN
        /\ HolisticInputs \/ AugmentInputs \/ InsightInputs
        /\ NoLoopInputs /\ NoScoreInputs
     \/ LoopInputs
     \/ InterleavedInputs
     \/ /\ SimilarityInputs \/ JaccardInputs \/ TitleInputs \/ LyricsInputs
           \/ SummaryInputs \/ LastfmInputs
        /\ in_client = FALSE
        /\ NoAdapterInputs /\ in_songs = <<>> /\ in_spotify = FALSE
  /\ in_lastfm \in (IF family = "lastfm" THEN LastfmAnswers ELSE {NoLastfm})
  /\ existing_details = in_existing
  /\ in_envs \in (IF family = "interleaved" THEN InterleavedEnvs \X InterleavedEnvs
                  ELSE {<<>>})
  /\ frames = IF family = "interleaved"
              THEN [w \in 1..Len(in_songs) |-> NewFrame(in_songs[w])]
              ELSE <<>>

CallHolistic ==
  /\ op = "idle" /\ family = "holistic"
  /\ op' = "holistic"
  /\ ret' = get_holistic_llm_recommendations(in_liked, in_client, in_llm)
  /\ outcome' = ""
  /\ UNCHANGED <<inputs, heap, loops>>

RunRecommenderHolisticStep ==
  /\ op = "idle" /\ family = "holistic"
  /\ in_liked # <<>>
  /\ LET r == RunRecommenderReport(in_liked, in_client, in_llm) IN
     /\ op' = "run_recommender"
     /\ ret' = r.res
     /\ outcome' = r.outcome
  /\ UNCHANGED <<inputs, heap, loops>>

CallAugment ==
  /\ op = "idle" /\ family = "augment"
  /\ op' = "augment"
  /\ ret' = augment_song_details_with_llm(in_existing, in_client, in_llm)
  /\ existing_details' = existing_details_after(existing_details, in_client, in_llm)
  /\ outcome' = ""
  /\ UNCHANGED <<inputs, loops, frames>>

CallBasicInsights ==
  /\ op = "idle" /\ family = "insights"
  /\ op' = "basic_insights"
  /\ ret' = get_lyrical_insights(in_lyrics, in_client, in_llm)
  /\ outcome' = ""
  /\ UNCHANGED <<inputs, heap, loops>>

CallRichInsights ==
  /\ op = "idle" /\ family = "insights"
  /\ op' = "rich_insights"
  /\ ret' = get_rich_lyrical_insights(
               in_lyrics, DictGet(in_liked[1], "original_input_title"),
               DictGet(in_liked[1], "original_input_artist"), in_client, in_llm)
  /\ outcome' = ""
  /\ UNCHANGED <<inputs, heap, loops>>

\* main.py 103-106: without a Spotify client the run ends before a song is read
RunExitNoSpotify ==
  /\ family = "run" /\ pc = "process" /\ ~in_spotify
  /\ pc' = "exit"
  /\ outcome' = "spotify_client_failed"
  /\ op' = "run_enrichment"
  /\ UNCHANGED <<inputs, heap, ret, idx, processed, valid, enriched, calls>>

\* main.py 141-184: one pass of the first loop.  An exception of the basic
\* analysis is not caught there and ends the run.
RunProcessLikedSong ==
  /\ family = "run" /\ pc = "process" /\ in_spotify /\ idx <= Len(in_songs)
  /\ \E env \in ProcessEnvs :
       LET r == ProcessLikedSong(in_songs[idx], idx, env, genius, in_client) IN
       /\ calls' = calls \o r.calls
       /\ IF r.exc # ""
          THEN /\ pc' = "crashed"
               /\ ret' = Escaped(r.exc, 1)
               /\ UNCHANGED <<idx, processed>>
          ELSE /\ processed' = Append(processed, r.rec)
               /\ idx' = idx + 1
               /\ UNCHANGED <<pc, ret>>
  /\ op' = "run_enrichment"
  /\ UNCHANGED <<inputs, heap, valid, enriched, outcome>>

\* main.py 186-220 and 273-280 once the first loop is over
RunSelectValid ==
  /\ family = "run" /\ pc = "process" /\ idx > Len(in_songs)
  /\ valid' = valid_liked_songs(processed)
  /\ IF SummaryRaises(valid')
     THEN pc' = "crashed" /\ ret' = Escaped("AttributeError", 0)
     ELSE /\ pc' = IF valid' = <<>> THEN "exit" ELSE IF in_client THEN "deep"
                   ELSE "report"
          /\ ret' = ret
  /\ idx' = IF SummaryRaises(valid') THEN idx ELSE 1
  /\ UNCHANGED <<inputs, heap, op, outcome, processed, enriched, calls>>

\* main.py 222-272: one pass of the second loop
RunDeepEnrichSong ==
  /\ family = "run" /\ pc = "deep"
  /\ \E env \in DeepEnvs :
       LET r == DeepEnrichSong(valid[idx], valid_positions(processed)[idx],
                               env, in_client) IN
       /\ enriched' = Append(enriched, r.rec)
       /\ calls' = calls \o r.calls
  /\ idx' = idx + 1
  /\ pc' = IF idx = Len(valid) THEN "report" ELSE "deep"
  /\ UNCHANGED <<inputs, heap, op, ret, outcome, processed, valid>>

\* (mutation of RunHolisticReport: the holistic request is made inside the
\* second loop, after each song it enriched)
RunHolisticPerSong ==
  /\ family = "run" /\ pc \in {"deep", "report"} /\ enriched # <<>>
  /\ calls[Len(calls)].kind # "holistic"
  /\ \E reply \in ReportReplies :
       LET r == RunRecommenderReport(enriched, in_client, reply) IN
       /\ ret' = r.res
       /\ outcome' = r.outcome
       /\ calls' = calls \o LlmCalls(0, "holistic", EmptyDict, r.res.calls)
  /\ pc' = IF pc = "report" THEN "done" ELSE pc
  /\ UNCHANGED <<inputs, heap, op, idx, processed, valid, enriched>>

\* main.py 283-305
RunHolisticReport ==
  /\ family = "run" /\ pc = "report"
  /\ \E reply \in ReportReplies :
       LET r == RunRecommenderReport(IF in_client THEN enriched ELSE valid,
                                     in_client, reply) IN
       /\ ret' = r.res
       /\ outcome' = r.outcome
       /\ calls' = calls \o LlmCalls(0, "holistic", EmptyDict, r.res.calls)
  /\ pc' = "done"
  /\ UNCHANGED <<inputs, heap, op, idx, processed, valid, enriched>>

\* the answer r of the handler and the calls its report made
AppAnswers(r) ==
  /\ ret' = r.res
  /\ outcome' = r.outcome
  /\ calls' = calls \o LlmCalls(0, "holistic", EmptyDict, r.res.calls) \o r.searches

\* app.py 189-190
AppRefuse ==
  /\ family = "app" /\ pc = "process" /\ ~in_client
  /\ AppAnswers(AppRecommendReport(<<>>, in_client, LlmNone, in_spotify, <<>>))
  /\ pc' = "done"
  /\ op' = "app_enrichment"
  /\ UNCHANGED <<inputs, heap, idx, processed, valid, enriched>>

\* app.py 195-235: one pass of the first loop; after the last the second loop
\* starts
AppProcessStep ==
  /\ family = "app" /\ pc = "process" /\ in_client
  /\ \E env \in AppProcessEnvs :
       LET r == AppProcessSong(in_songs[idx], idx, env, in_client, in_spotify) IN
       /\ in_spotify \/ env.genres = PyNone
       /\ processed' = Append(processed, r.rec)
       /\ calls' = calls \o r.calls
  /\ pc' = IF idx = Len(in_songs) THEN "deep" ELSE "process"
  /\ idx' = IF idx = Len(in_songs) THEN 1 ELSE idx + 1
  /\ op' = "app_enrichment"
  /\ UNCHANGED <<inputs, heap, ret, outcome, valid, enriched>>

\* app.py 239-251: one pass of the second loop; line 248 updates the record of
\* processed_songs itself, and line 251 appends that same record
AppEnrichStep ==
  /\ family = "app" /\ pc = "deep"
  /\ \E env \in AppDeepEnvs :
       LET r == AppEnrichSong(processed[idx], idx, env, in_client) IN
       /\ processed' = [processed EXCEPT ![idx] = r.rec]
       /\ enriched' = Append(enriched, r.rec)
       /\ calls' = calls \o r.calls
  /\ idx' = idx + 1
  /\ pc' = IF idx = Len(processed) THEN "report" ELSE "deep"
  /\ UNCHANGED <<inputs, heap, op, ret, outcome, valid>>

\* lines 259-271 after the holistic request answered r, for every answer to the
\* catalog searches of the links
AppReports(r) ==
  \E found \in [1..(IF Truthy(r.val) THEN LinkSearches(r.val.items, 1, in_spotify) ELSE 0)
                 -> LinkAnswers] :
    AppAnswers(AppAfterHolistic(r, in_spotify, found))

\* app.py 254-271
AppReportStep ==
  /\ family = "app" /\ pc = "report"
  /\ \E reply \in AppReportReplies :
       AppReports(get_holistic_llm_recommendations(enriched, in_client, reply))
  /\ pc' = "done"
  /\ UNCHANGED <<inputs, heap, op, idx, processed, valid, enriched>>

CallSimilarity ==
  /\ op = "idle" /\ family = "similarity"
  /\ op' = "similarity"
  /\ ret' = calculate_song_content_similarity(in_a, in_b, in_weights)
  /\ UNCHANGED <<inputs, heap, loops, outcome>>

CallJaccard ==
  /\ op = "idle" /\ family = "jaccard"
  /\ op' = "jaccard"
  /\ ret' = Returned(_calculate_jaccard_similarity(in_a, in_b), 0, "")
  /\ UNCHANGED <<inputs, heap, loops, outcome>>

CallCleanTitle ==
  /\ op = "idle" /\ family = "title"
  /\ op' = "clean_title"
  /\ ret' = Returned(_clean_track_title(in_title), 0, "")
  /\ UNCHANGED <<inputs, heap, loops, outcome>>

\* _clean_track_title given its own result
CallCleanTitleAgain ==
  /\ op = "clean_title" /\ family = "title"
  /\ op' = "clean_title_again"
  /\ in_title' = ret.val
  /\ ret' = Returned(_clean_track_title(ret.val), 0, "")
  /\ UNCHANGED <<family, in_client, in_liked, in_llm, in_existing, in_lyrics,
                 in_songs, genius, in_a, in_b, in_weights, in_raw, in_spotify, in_lastfm,
                 in_envs, loops, heap, outcome>>

CallGetLyrics ==
  /\ op = "idle" /\ family = "lyrics"
  /\ op' = "get_lyrics"
  /\ ret' = Returned(get_lyrics(genius, in_title[1], "Band", in_raw), 0, "")
  /\ UNCHANGED <<inputs, heap, loops, outcome>>

\* main.py 193-216 for one valid song
CallSummary ==
  /\ op = "idle" /\ family = "summary"
  /\ op' = "summary"
  /\ ret' = summary_of_insights(in_a)
  /\ UNCHANGED <<inputs, heap, loops, outcome>>

CallLastfmRecommendations ==
  /\ op = "idle" /\ family = "lastfm"
  /\ op' = "lastfm"
  /\ ret' = get_lastfm_recommendations_for_track(in_title, in_lastfm)
  /\ UNCHANGED <<inputs, heap, loops, outcome>>

\* one step of the pass of one of the songs; an exception that leaves a pass ends
\* the run
InterleavedStep ==
  /\ family = "interleaved"
  /\ \A v \in DOMAIN frames : frames[v].at # "raised"
  /\ \E w \in DOMAIN frames :
       /\ frames[w].at # "done"
       /\ LET f == [frames[FrameOf(w)] EXCEPT !.at = frames[w].at]
              new == SongStep(f, in_songs[w], w, in_envs[w], genius, in_client)
          IN frames' = [[frames EXCEPT ![FrameOf(w)] = new]
                          EXCEPT ![w] = [@ EXCEPT !.at = new.at]]
  /\ op' = "interleaved"
  /\ UNCHANGED <<inputs, loops, existing_details, ret, outcome>>

Next ==
  \/ CallHolistic
  \/ RunRecommenderHolisticStep
  \/ CallAugment
  \/ CallBasicInsights
  \/ CallRichInsights
  \/ RunExitNoSpotify
  \/ RunProcessLikedSong
  \/ RunSelectValid
  \/ RunDeepEnrichSong
  \/ RunHolisticReport
  \/ AppRefuse
  \/ AppProcessStep
  \/ AppEnrichStep
  \/ AppReportStep
  \/ CallSimilarity
  \/ CallJaccard
  \/ CallCleanTitle
  \/ CallCleanTitleAgain
  \/ CallGetLyrics
  \/ CallSummary
  \/ CallLastfmRecommendations
  \/ InterleavedStep

Spec == Init /\ [][Next]_vars

\* ------------------------------------------------------------------ claims
Called == ret.log \notin {"", "not_called"}
Holistic == op = "holistic"
\* the reply as json.loads reads it when it carries no fence
BareReply == IF in_llm.kind = "text" THEN JsonLoads(in_llm.toks) ELSE [ok |-> FALSE, val |-> JNull]

\* str.lower on the names of the alphabet
Lower(x) ==
  CASE x = "Song" -> "song" [] x = "Band" -> "band"
    [] x = "Tune" -> "tune" [] x = "Duo" -> "duo"
    [] OTHER -> x

SameSong(rec, liked) ==
  /\ IsDict(rec) /\ HasKey(rec, "title") /\ HasKey(rec, "artist")
  /\ Lower(DictGet(rec, "title").s) = Lower(DictGet(liked, "original_input_title").s)
  /\ Lower(DictGet(rec, "artist").s) = Lower(DictGet(liked, "original_input_artist").s)

\* C1: no element of the list returned by get_holistic_llm_recommendations has the
\* title and artist (compared case-insensitively) of a song of the liked-song input.
C1_NoLikedSongReturned ==
  (Holistic /\ IsList(ret.val)) =>
    \A i \in 1..Len(ret.val.items), j \in 1..Len(in_liked) :
      ~SameSong(ret.val.items[i], in_liked[j])

\* C2: a reply that parses as JSON but is neither a list nor an object holding a
\* list makes get_holistic_llm_recommendations return None, not [].
C2_BadShapeIsNone ==
  (/\ Holistic /\ in_client /\ in_liked # <<>>
   /\ BareReply.ok
   /\ ~IsList(BareReply.val)
   /\ ~(IsDict(BareReply.val) /\ ListFields(BareReply.val) # {}))
  => ret.val = PyNone

\* C3: in both front doors the outcome reported for a holistic result of [] differs
\* from the outcome the same front door reports for a holistic result of None.
C3_NoneAndEmptyReportedDifferently ==
  /\ (op = "run_recommender" /\ Called /\ ret.val = EmptyList)
       => outcome # RunRecommenderReport(in_liked, in_client, LlmRaise).outcome
  /\ (family = "app" /\ pc = "done" /\ Called /\ ret.val = EmptyList)
       => outcome # AppRecommendReport(enriched, in_client, LlmRaise, in_spotify,
                                       <<>>).outcome

FencedWrappers == {"json_fence", "spaced_json_fence", "plain_fence"}

\* C4: a JSON array wrapped in a leading and trailing code fence, with or without
\* the json tag, gives the same result as the bare array.
C4_FencedSameAsBare ==
  Holistic =>
    \A w \in FencedWrappers, b \in HolisticBodies :
      (/\ in_llm = LlmText(Wrap(w, b))
       /\ JsonLoads(b).ok /\ IsList(JsonLoads(b).val))
      => ret.val = get_holistic_llm_recommendations(in_liked, in_client, LlmText(b)).val

\* the reply, read without a fence, is a JSON object
ReplyIsObject == in_client /\ in_liked # <<>> /\ BareReply.ok /\ IsDict(BareReply.val)

\* C5 as stated: a field's list value is returned only if the object has exactly
\* one list-valued field; an object with two or more is not accepted.
C5_OnlyExactlyOneList ==
  (Holistic /\ ReplyIsObject /\ ret.log = "received_from_dict_key" /\ ret.val # EmptyList)
    => Cardinality(ListFields(BareReply.val)) = 1

\* C5 as amended: for a JSON object reply the function returns a field's list value
\* exactly when the object has at least one list-valued field, and the value is
\* that of the first list-valued field in key order (two or more lists are accepted).
C5_FirstListOfObject ==
  (Holistic /\ ReplyIsObject) =>
    LET d == BareReply.val IN
    IF ListFields(d) = {}
    THEN ret.val = EmptyList /\ ret.log = "not_expected_format"
    ELSE /\ ret.log = "received_from_dict_key"
         /\ \E i \in ListFields(d) :
              /\ ret.val = d.items[i]
              /\ \A j \in ListFields(d) : i <= j

C5_Witness ==
  /\ Holistic /\ ReplyIsObject
  /\ Cardinality(ListFields(BareReply.val)) = 2
  /\ BareReply.val.items[1] # BareReply.val.items[2]
  /\ ret.val = BareReply.val.items[1]
  /\ ret.val # EmptyList

\* the prompt's "exactly 10 JSON objects"
ExpectedRecCount == 10
IsRecommendation(v) ==
  IsDict(v) /\ HasKey(v, "artist") /\ HasKey(v, "title") /\ HasKey(v, "justification")

\* C6: every non-empty list returned has exactly 10 elements, each an object with
\* the keys artist, title and justification.
C6_TenWellFormed ==
  (Holistic /\ IsList(ret.val) /\ ret.val.items # <<>>) =>
    /\ Len(ret.val.items) = ExpectedRecCount
    /\ \A i \in 1..Len(ret.val.items) : IsRecommendation(ret.val.items[i])
Augment == op = "augment"
ReplyText == in_llm.kind = "text" /\ in_llm.toks # <<>>

\* C7: when the LLM call raises, returns no content, or returns text that is not
\* valid JSON, augment_song_details_with_llm returns existing_details with the same
\* keys and values and raises nothing.
C7_FailureReturnsExisting ==
  (/\ Augment
   /\ \/ in_llm.kind \in {"raise", "raise_json", "none"}
      \/ in_llm.toks = <<>>
      \/ ~BareReply.ok)
  => ret.exc = "" /\ ret.val = in_existing

\* C8: when the LLM reply is a JSON object R, the result is existing_details
\* overridden by R: R's keys carry R's values, the other keys of existing_details
\* keep theirs, and there are no other keys.
C8_MergeOverrides ==
  (Augment /\ in_client /\ ReplyText /\ BareReply.ok /\ IsDict(BareReply.val)) =>
    LET R == BareReply.val
        keysOf(d) == {d.keys[i] : i \in 1..Len(d.keys)}
    IN /\ ret.exc = ""
       /\ IsDict(ret.val)
       /\ keysOf(ret.val) = keysOf(R) \cup keysOf(in_existing)
       /\ Cardinality(keysOf(ret.val)) = Len(ret.val.keys)
       /\ \A k \in keysOf(R) : DictGet(ret.val, k) = DictGet(R, k)
       /\ \A k \in keysOf(in_existing) \ keysOf(R) :
            DictGet(ret.val, k) = DictGet(in_existing, k)

\* a reply that overrides one key of the record and adds another
C8_Witness ==
  /\ Augment /\ in_client /\ ReplyText /\ BareReply.ok /\ IsDict(BareReply.val)
  /\ HasKey(in_existing, "genre") /\ HasKey(BareReply.val, "genre")
  /\ DictGet(in_existing, "genre") # DictGet(BareReply.val, "genre")
  /\ HasKey(BareReply.val, "composers") /\ HasKey(in_existing, "lyrics")
  /\ ~HasKey(BareReply.val, "lyrics")
  /\ ret.val # in_existing /\ ret.val # BareReply.val

Insights == op \in {"basic_insights", "rich_insights"}

\* the shapes of section 6: the four basic fields, the seven rich fields
BasicSchemaOK(v) ==
  /\ IsDict(v)
  /\ \A k \in {"themes", "sentiments", "keywords"} : HasKey(v, k) /\ IsList(DictGet(v, k))
  /\ HasKey(v, "overall_summary") /\ DictGet(v, "overall_summary").t = "str"
RichSchemaOK(v) ==
  /\ IsDict(v)
  /\ \A k \in {"song_title", "artist_name", "analysis_model", "overall_interpretation",
               "concise_summary", "detailed_breakdown", "llm_confidence_notes"} : HasKey(v, k)
  /\ IsDict(DictGet(v, "detailed_breakdown"))
SchemaOK(v) == IF op = "basic_insights" THEN BasicSchemaOK(v) ELSE RichSchemaOK(v)

\* white space only, empty, or no text at all
BlankLyrics ==
  in_lyrics.kind = "none" \/ \A i \in 1..Len(in_lyrics.toks) : in_lyrics.toks[i] \in WS

\* C9: the insight functions return None whenever the reply is missing, is not
\* valid JSON, or is valid JSON of another shape than the insight schema, and
\* they never raise.
C9_FailClosed ==
  (/\ Insights /\ in_client /\ ~BlankLyrics
   /\ \/ in_llm.kind = "none"
      \/ in_llm.kind = "text" /\ ~BareReply.ok
      \/ in_llm.kind = "text" /\ BareReply.ok /\ ~SchemaOK(BareReply.val))
  => ret.exc = "" /\ ret.val = PyNone

IsEmptyLyricsSentinel(v) ==
  /\ IsDict(v)
  /\ \E i \in 1..Len(v.items) : v.items[i] = JStr("Lyrics were empty.")

\* C10 as stated: for empty or whitespace-only lyrics both functions return their
\* "Lyrics were empty" sentinel and make no chat-completion call, whether the client
\* is available or not.
C10_SentinelInEveryClientState ==
  (Insights /\ BlankLyrics) => IsEmptyLyricsSentinel(ret.val) /\ ret.calls = 0

\* C10 as amended: for empty or whitespace-only lyrics both functions make no
\* chat-completion call and raise nothing in every state of the client; they return
\* the sentinel when the client is available and None when it is not.
C10_SentinelWhenClientAvailable ==
  (Insights /\ BlankLyrics) =>
    /\ ret.calls = 0 /\ ret.exc = ""
    /\ in_client => IsEmptyLyricsSentinel(ret.val)
    /\ ~in_client => ret.val = PyNone

\* whitespace-only lyrics, a client, and an LLM that would have answered
C10_Witness ==
  /\ Insights /\ in_client
  /\ in_lyrics.kind = "text" /\ in_lyrics.toks # <<>> /\ BlankLyrics
  /\ in_llm.kind = "text" /\ BareReply.ok
  /\ IsEmptyLyricsSentinel(ret.val) /\ ret.calls = 0

\* ------------------------------------------------------------------ claims C11-C13
CallsOfSong(i) == {n \in 1..Len(calls) : calls[n].song = i}
CallKinds(i) == {calls[n].kind : n \in CallsOfSong(i)}
\* the songs whose catalog search found nothing or raised
Unmatched ==
  {i \in 1..Len(in_songs) :
     \E n \in CallsOfSong(i) : calls[n].answer \in {"no_items", "raise"}}
HolisticCalled == \E n \in 1..Len(calls) : calls[n].kind = "holistic"

\* C11: when the catalog search for a liked song finds no match or raises, the
\* first loop of run_recommender still appends a record for that song, with
\* spotify_info None, lyrics None, lyrical_insights None and artist_genres empty;
\* no genre, lyrics or LLM call is made for that song, then or later in the run,
\* and no exception leaves the loop on that song.
C11_UnmatchedSongStillRecorded ==
  family = "run" =>
    \A i \in Unmatched :
      /\ i <= Len(processed)
      /\ DictGet(processed[i], "spotify_info") = PyNone
      /\ DictGet(processed[i], "lyrics") = PyNone
      /\ DictGet(processed[i], "lyrical_insights") = PyNone
      /\ DictGet(processed[i], "artist_genres") = EmptyList
      /\ CallKinds(i) = {"search"}
      /\ ~(pc = "crashed" /\ idx = i)

\* a finished run whose first song had no match and whose second song went
\* through the second loop and into the holistic call
C11_Witness ==
  /\ family = "run" /\ pc = "done" /\ in_client /\ genius
  /\ Len(in_songs) >= 2 /\ 1 \in Unmatched
  /\ {"genres", "lyrics", "augment"} \subseteq CallKinds(2)
  /\ HolisticCalled
  /\ Len(processed) = Len(in_songs) /\ Len(enriched) < Len(processed)

\* C12: in every song record handed to get_holistic_llm_recommendations by
\* run_recommender or by the /get_recommendations handler, lyrics None implies
\* lyrical_insights None and no rich_lyrical_analysis key, whatever the
\* augmentation reply merged into the record.
C12_NoInsightsWithoutLyrics ==
  (family \in {"run", "app"} /\ pc = "done" /\ HolisticCalled) =>
    \A i \in 1..Len(enriched) :
      DictGetOr(enriched[i], "lyrics", PyNone) = PyNone =>
        /\ DictGetOr(enriched[i], "lyrical_insights", PyNone) = PyNone
        /\ ~HasKey(enriched[i], "rich_lyrical_analysis")

\* C13: in every run of run_recommender each record that is augmented, richly
\* analysed or handed to get_holistic_llm_recommendations has a spotify_info
\* other than None.
C13_OnlyMatchedSongsReachLlm ==
  family = "run" =>
    /\ \A n \in 1..Len(calls) :
         calls[n].kind \in {"augment", "rich_insights"} => calls[n].matched
    /\ (pc = "done" /\ HolisticCalled) =>
         \A i \in 1..Len(enriched) : HasMatch(enriched[i])

\* ------------------------------------------------------------------ claims C14-C18
Similarity == op = "similarity"
\* lyrical_insights missing: the key is not there, or its value is None
InsightsMissing(d) == DictGetOr(d, "lyrical_insights", PyNone) = PyNone
InsightsNone(d) ==
  HasKey(d, "lyrical_insights") /\ DictGet(d, "lyrical_insights") = PyNone
ListElems(v) == {v.items[i] : i \in 1..Len(v.items)}
\* the three facet sets of a record, a missing lyrical_insights read as no
\* themes and no keywords
GenreSet(d) == ListElems(DictGet(d, "artist_genres"))
InsightSet(d, k) ==
  IF InsightsMissing(d) THEN {} ELSE ListElems(DictGet(DictGet(d, "lyrical_insights"), k))
SameFacets(a, b) ==
  /\ GenreSet(a) = GenreSet(b)
  /\ InsightSet(a, "themes") = InsightSet(b, "themes")
  /\ InsightSet(a, "keywords") = InsightSet(b, "keywords")
Overlap(A, B) ==
  IF A \cup B = {} THEN FloatDiv(0, 1)
  ELSE FloatDiv(Cardinality(A \cap B), Cardinality(A \cup B))
SuppliedTenths(weights, k) == IF k \in DOMAIN weights.w THEN weights.w[k] ELSE 0
SuppliedSum(weights) ==
  SuppliedTenths(weights, "genre") + SuppliedTenths(weights, "theme")
  + SuppliedTenths(weights, "keyword")

\* C14: when lyrical_insights is missing on either record (the key absent, or
\* present with the value None), calculate_song_content_similarity returns
\* without raising, and the score is the one of empty theme and keyword sets
\* for that record: only the genre facet contributes.
C14_MissingInsightsAreEmptySets ==
  (Similarity /\ (InsightsMissing(in_a) \/ InsightsMissing(in_b))) =>
    /\ ret.exc = ""
    /\ ret.val = FloatMul(Overlap(GenreSet(in_a), GenreSet(in_b)),
                          WeightGet(in_weights, "genre"))

\* C15: calculate_song_content_similarity(a, b, weights) and
\* calculate_song_content_similarity(b, a, weights) end the same way, and when
\* they return they return equal scores.
C15_Symmetric ==
  Similarity =>
    LET back == calculate_song_content_similarity(in_b, in_a, in_weights)
    IN /\ (ret.exc = "") = (back.exc = "")
       /\ ret.exc = "" => ret.val = back.val

\* two different records with different genre lists that overlap, scored
\* under weights that are not the default ones
C15_Witness ==
  /\ Similarity /\ ret.exc = ""
  /\ GenreSet(in_a) # GenreSet(in_b) /\ GenreSet(in_a) \cap GenreSet(in_b) # {}
  /\ Cardinality(GenreSet(in_a)) < Cardinality(GenreSet(in_b))
  /\ in_weights = Weights([genre |-> 1, theme |-> 2, keyword |-> 7])
  /\ ret.val # FloatDiv(0, 1)

\* C16 as stated: two records whose genre, theme and keyword sets are pairwise
\* equal, whatever the sets contain, score exactly 1.0 under the default
\* weights (records with a lyrical_insights of None left aside).
C16_EqualFacetsScoreOne ==
  (/\ Similarity /\ in_weights = WeightsNone
   /\ ~InsightsNone(in_a) /\ ~InsightsNone(in_b)
   /\ SameFacets(in_a, in_b)) =>
    /\ ret.exc = ""
    /\ ret.val = FloatDiv(1, 1)

\* the default weight of a facet whose set is not empty, 0.0 for an empty one
WeightOfFacet(S, k) == IF S # {} THEN WeightGet(DefaultWeights, k) ELSE FloatDiv(0, 1)

\* C16: two records whose genre, theme and keyword sets are pairwise equal
\* score, under the default weights, the sum of the default weights (0.3, 0.4,
\* 0.3) of the facets whose set is not empty: exactly 1.0 when none of the three
\* sets is empty, 0.0 when all are; the call raises AttributeError instead when
\* a record has lyrical_insights None.
C16_EqualFacetsScoreNonEmptyWeights ==
  (Similarity /\ in_weights = WeightsNone /\ SameFacets(in_a, in_b)) =>
    IF InsightsNone(in_a) \/ InsightsNone(in_b)
    THEN ret.exc = "AttributeError"
    ELSE /\ ret.exc = ""
         /\ ret.val = FloatAdd(FloatAdd(WeightOfFacet(GenreSet(in_a), "genre"),
                                        WeightOfFacet(InsightSet(in_a, "themes"), "theme")),
                               WeightOfFacet(InsightSet(in_a, "keywords"), "keyword"))
         /\ (/\ GenreSet(in_a) # {} /\ InsightSet(in_a, "themes") # {}
             /\ InsightSet(in_a, "keywords") # {}) => ret.val = FloatDiv(1, 1)
         /\ (/\ GenreSet(in_a) = {} /\ InsightSet(in_a, "themes") = {}
             /\ InsightSet(in_a, "keywords") = {}) => ret.val = FloatDiv(0, 1)

\* two records that differ (the genres are listed in another order) with equal,
\* non-empty facet sets, scored 1 under the default weights
C16_Witness ==
  /\ Similarity /\ in_weights = WeightsNone /\ ret.exc = ""
  /\ in_a # in_b /\ SameFacets(in_a, in_b)
  /\ Cardinality(GenreSet(in_a)) = 2
  /\ InsightSet(in_a, "themes") # {} /\ InsightSet(in_a, "keywords") # {}
  /\ ret.val = FloatDiv(1, 1)

\* C17: whenever the supplied weights are non-negative and sum to 1 (any subset
\* of the keys genre, theme, keyword; weights=None being the default mapping),
\* a score that calculate_song_content_similarity returns lies in [0, 1].
C17_ScoreInUnitInterval ==
  (/\ Similarity /\ ret.exc = ""
   /\ (in_weights = WeightsNone \/ SuppliedSum(in_weights) = 10)) =>
    /\ FloatLeq(FloatDiv(0, 1), ret.val)
    /\ FloatLeq(ret.val, FloatDiv(1, 1))

\* C18: _calculate_jaccard_similarity(A, B) of two sets or lists is
\* |A intersect B| / |A union B| over their element sets, and 0.0 when both
\* are empty.
C18_JaccardOfElementSets ==
  op = "jaccard" =>
    LET A == IF in_a.t = "set" THEN in_a.elems ELSE ListElems(in_a)
        B == IF in_b.t = "set" THEN in_b.elems ELSE ListElems(in_b)
    IN /\ ret.exc = ""
       /\ A \cup B = {} => ret.val = FloatDiv(0, 1)
       /\ A \cup B # {} =>
            ret.val = FloatDiv(Cardinality(A \cap B), Cardinality(A \cup B))

\* a list that repeats an element against a set: one shared element out of two
C18_Witness ==
  /\ op = "jaccard"
  /\ in_a.t = "list" /\ Len(in_a.items) > Cardinality(ListElems(in_a))
  /\ in_b.t = "set" /\ Cardinality(in_b.elems) = 2
  /\ ret.val = FloatDiv(1, 2)

\* ------------------------------------------------------------------ claims C19-C20
RECURSIVE HasLaterClose(_, _, _, _)
\* one of the characters at positions i.. is open and a close follows it
HasLaterClose(s, i, open, close) ==
  IF i > Len(s) THEN FALSE
  ELSE \/ (s[i] = open /\ \E j \in (i + 1)..Len(s) : s[j] = close)
       \/ HasLaterClose(s, i + 1, open, close)

\* C19: _clean_track_title applied to its own result returns that result
\* unchanged, for every title, titles ending in several known suffixes
\* included.
C19_Idempotent ==
  op = "clean_title_again" => ret.val = in_title

\* C20: the result of _clean_track_title has no '(' with a ')' somewhere after
\* it and no '[' with a ']' somewhere after it.
C20_NoDelimitedPairLeft ==
  op = "clean_title" =>
    /\ ~HasLaterClose(ret.val, 1, "(", ")")
    /\ ~HasLaterClose(ret.val, 1, "[", "]")

\* ------------------------------------------------------------------ claims C21-C22
GotLyrics == op = "get_lyrics"

\* C21: a result of get_lyrics that is not None holds no '[' with a ']'
\* somewhere after it, whatever raw text the lyrics provider returned.
C21_NoBracketedTagLeft ==
  (GotLyrics /\ ret.val.kind = "text") => ~HasLaterClose(ret.val.toks, 1, "[", "]")

\* C22: get_lyrics returns None or a string that is not empty and not made of
\* whitespace only; when the cleaning of the raw text leaves nothing, it
\* returns None.
C22_NoneOrNonBlank ==
  GotLyrics =>
    /\ \/ ret.val = LyricsNone
       \/ /\ ret.val.kind = "text"
          /\ \E i \in 1..Len(ret.val.toks) : ret.val.toks[i] \notin WS
    /\ (genius /\ in_raw.found = "song"
        /\ Strip(CleanLyrics(in_raw.lyrics, in_title[1], "Band")) = <<>>)
         => ret.val = LyricsNone

\* a raw text with words in it, all of them inside a bracketed tag or a footer,
\* for which None is returned
C22_Witness ==
  /\ GotLyrics /\ genius /\ in_raw.found = "song"
  /\ \E i \in 1..Len(in_raw.lyrics) : in_raw.lyrics[i] = "love"
  /\ \E i \in 1..Len(in_raw.lyrics) : in_raw.lyrics[i] = "\n"
  /\ ret.val = LyricsNone

\* ---------------------------------------------------------------- client failures
RunEnded == pc \in {"exit", "done"}
LlmCallKinds == {"basic_insights", "augment", "rich_insights", "holistic"}
SomeClientFailed == ~in_spotify \/ ~genius \/ ~in_client

\* C23 as stated: when one of the Spotify, Genius and OpenAI clients failed to
\* initialise, run_recommender is not ended by that failure and every liked
\* song read has been processed when the run ends.
C23_NoClientFailureEndsRun ==
  (family = "run" /\ SomeClientFailed) =>
    /\ outcome # "spotify_client_failed"
    /\ (RunEnded => Len(processed) = Len(in_songs))

\* C23 amended: a failed Genius or OpenAI client leaves that stage's fields
\* unset and never ends the run (without Genius no lyrics are asked for and
\* lyrics and lyrical_insights stay None; without OpenAI no LLM call is made, a
\* song with lyrics gets the placeholder insights and nothing is deeply
\* enriched), whereas a failed Spotify client ends the run before any song is
\* processed.
C23_OnlySpotifyFailureEndsRun ==
  family = "run" =>
    /\ ~in_spotify =>
         /\ processed = <<>> /\ calls = <<>>
         /\ RunEnded => outcome = "spotify_client_failed"
    /\ (in_spotify /\ ~genius) =>
         /\ pc # "crashed"
         /\ RunEnded => Len(processed) = Len(in_songs)
         /\ \A i \in 1..Len(processed) :
              /\ DictGet(processed[i], "lyrics") = PyNone
              /\ DictGet(processed[i], "lyrical_insights") = PyNone
         /\ \A k \in 1..Len(calls) : calls[k].kind # "lyrics"
    /\ (in_spotify /\ ~in_client) =>
         /\ pc # "crashed"
         /\ RunEnded => Len(processed) = Len(in_songs)
         /\ \A i \in 1..Len(processed) :
              Truthy(DictGet(processed[i], "lyrics")) =>
                DictGet(processed[i], "lyrical_insights") = AnalysisNotPerformed
         /\ \A k \in 1..Len(calls) : calls[k].kind \notin LlmCallKinds
         /\ enriched = <<>>

\* a run without a Genius client that matched two songs and went on to the
\* holistic request
C23_Witness ==
  /\ family = "run" /\ in_spotify /\ ~genius /\ in_client
  /\ pc = "done" /\ Len(processed) = 2 /\ Len(enriched) = 2
  /\ \E k \in 1..Len(calls) : calls[k].kind = "holistic"

\* -------------------------------------------------------- failed basic insights
FailedInsightCalls ==
  {k \in 1..Len(calls) :
     calls[k].kind = "basic_insights"
     /\ calls[k].answer \in {"insights_none", "insights_raised"}}

\* C24: when the basic insight request made for a song's fetched lyrics
\* returns None or raises, the song's record keeps lyrical_insights None and
\* the processing goes on (no failed request ends the run or the request).
C24_FailedInsightsStayNone ==
  \A k \in FailedInsightCalls :
    /\ pc # "crashed"
    /\ calls[k].song <= Len(processed) =>
         DictGet(processed[calls[k].song], "lyrical_insights") = PyNone

\* ------------------------------------------------------------- summary classes
SummaryClasses ==
  { "Lyrical Summary", "Lyrics were empty, analysis skipped.",
    "Not available or analysis failed." }
Summarised == op = "summary" /\ Truthy(DictGet(in_a, "lyrics"))

\* C25: for a song with lyrics the summary step puts every value of
\* lyrical_insights in exactly one of three classes (analysis shown, lyrics
\* were empty and the analysis skipped, not available or failed), and the record
\* get_lyrical_insights returns for empty lyrics is put in the second.
C25_EmptyLyricsRecordIsItsOwnClass ==
  Summarised =>
    /\ ret.exc = "" /\ ret.val.t = "str" /\ ret.val.s \in SummaryClasses
    /\ DictGet(in_a, "lyrical_insights") = BasicSentinel =>
         ret.val = JStr("Lyrics were empty, analysis skipped.")

\* ------------------------------------------------------------- primary artist
\* C26: the artist name run_recommender gives to get_lyrics for a matched song
\* is exactly the name of the first artist the catalog credits for the match,
\* whatever characters the names contain.
C26_LyricsAskedForFirstCreditedArtist ==
  family = "run" =>
    \A k \in 1..Len(calls) :
      calls[k].kind = "lyrics" => calls[k].arg = in_songs[calls[k].song].credits[1]

\* ------------------------------------------------------- one holistic request
HolisticCalls == {k \in 1..Len(calls) : calls[k].kind = "holistic"}
\* the songs the second loop has to enrich
SongsToEnrich ==
  IF family = "run" THEN Len(valid_liked_songs(processed)) ELSE Len(processed)

\* C27: in a run of run_recommender and in a /get_recommendations request the
\* holistic recommendation request is made at most once, and only when both
\* loops are over: every liked song has been processed, every song to enrich
\* has its enriched record, and no augmentation or rich analysis call follows
\* (the only calls after it are the catalog searches for the streaming links).
C27_OneHolisticCallAfterEnrichment ==
  family \in {"run", "app"} =>
    /\ Cardinality(HolisticCalls) <= 1
    /\ \A k \in HolisticCalls :
         /\ \A j \in (k + 1)..Len(calls) : calls[j].kind = "link_search"
         /\ pc = "done"
         /\ Len(processed) = Len(in_songs)
         /\ Len(enriched) = SongsToEnrich

\* a run that enriched two songs, each with its own augmentation call, and then
\* asked once
C27_Witness ==
  /\ family = "run" /\ pc = "done" /\ Len(enriched) = 2
  /\ Cardinality(HolisticCalls) = 1
  /\ Cardinality({k \in 1..Len(calls) : calls[k].kind = "augment"}) = 2

\* ------------------------------------------------------- Last.fm errors
\* C29: get_lastfm_recommendations_for_track returns the empty list whenever
\* a Last.fm call or an item access raised during the call; a non-empty list is
\* returned only when nothing raised.
C29_ErrorGivesEmptyList ==
  (op = "lastfm" /\ ret.log = "error_occurred") => ret.val = EmptyList

\* ------------------------------------------------------- existing_details kept
\* C30: a call of augment_song_details_with_llm leaves the mapping it is given
\* as existing_details with the same keys and values, whether the reply was
\* merged or the call failed; the merge goes to a copy.
C30_ExistingDetailsUnchanged ==
  [][op' = "augment" => existing_details' = existing_details]_vars

\* a merge that gave a key of existing_details another value in the result
C30_Witness ==
  /\ op = "augment" /\ ret.log = "augmented"
  /\ \E i \in 1..Len(in_existing.keys) :
       /\ HasKey(ret.val, in_existing.keys[i])
       /\ DictGet(ret.val, in_existing.keys[i]) # in_existing.items[i]
  /\ existing_details = in_existing

\* ------------------------------------------------------- independent songs
\* what the pass of song w gives when the songs are run one after the other
SequentialRecord(w) == ProcessLikedSong(in_songs[w], w, in_envs[w], genius, in_client)
SequentialCopy(w) ==
  IF in_client /\ Truthy(DictGet(SequentialRecord(w).rec, "spotify_info"))
  THEN DeepEnrichSong(SequentialRecord(w).rec, w, in_envs[w], in_client).rec
  ELSE PyNone

\* C28: whatever the interleaving of the steps of the passes of two songs, each
\* song ends with the record and the enriched copy that its pass gives when the
\* songs are run one after the other with the same replies, and a pass raises
\* only if it raises then too.
C28_InterleavedEqualsSequential ==
  family = "interleaved" =>
    \A w \in DOMAIN frames :
      /\ frames[w].at = "raised" => SequentialRecord(w).exc # ""
      /\ frames[w].at \in {"augment", "rich", "done"} =>
           /\ SequentialRecord(w).exc = ""
           /\ frames[w].song_data = SequentialRecord(w).rec
      /\ frames[w].at = "done" => frames[w].copy = SequentialCopy(w)

\* both passes under way at once: the first song has its basic insights and its
\* augmented copy, the second is between its lyrics and its analysis
C28_Witness ==
  /\ family = "interleaved"
  /\ frames[1].at = "rich" /\ frames[2].at = "insights"
  /\ DictGet(frames[1].song_data, "lyrical_insights") = BasicReply
  /\ HasKey(frames[1].copy, "composers")
  /\ DictGet(frames[2].song_data, "lyrics") = JStr("la")
====
